---- MODULE Spec2Model ----
(***************************************************************************)
(* Lua++ bytecode VM: heap objects, string interning, mark-sweep garbage   *)
(* collector, value stack, call frames, upvalues and the dispatch loops.   *)
(*                                                                         *)
(* The C global `VM vm` is the record variable vm; every C function that   *)
(* changes it is an operator from a VM record to a VM record (or to a      *)
(* record [s, r] when the function also returns a value).  Pointers to     *)
(* heap objects are addresses 1..MaxAddr, 0 is NULL.  Stack slots are      *)
(* indexed from 0 as in `vm.stack[i]`; vm.stackTop is the index of the     *)
(* first free slot.                                                        *)
(***************************************************************************)
EXTENDS Integers, Sequences, FiniteSets, TLC

VARIABLES vm, host

vars == <<vm, host>>

(***************************************************************************)
(* Bounds of the model.                                                    *)
(***************************************************************************)
MaxObj == 9
MaxAddr == 30
MaxStack == 4
FirstGC == 3

(***************************************************************************)
(* Program constants.                                                      *)
(***************************************************************************)
GC_HEAP_GROW_FACTOR == 2
FRAMES_MAX == 64
UINT8_COUNT == 256
STACK_MAX == FRAMES_MAX * UINT8_COUNT

Addr == 1..MaxAddr

(***************************************************************************)
(* value.h: tagged values.                                                 *)
(***************************************************************************)
NIL_VAL == [t |-> "nil", v |-> 0]
BOOL_VAL(b) == [t |-> "bool", v |-> IF b THEN 1 ELSE 0]
NUMBER_VAL(n) == [t |-> "num", v |-> n]
(* A double that is no integer: n is its integer part, as in 1.5.  The cast *)
(* (int)AS_NUMBER(v) keeps the integer part of a number.                    *)
FRACTION_VAL(n) == [t |-> "num", v |-> n, frac |-> TRUE]
intOf(v) == v.v
OBJ_VAL(a) == [t |-> "obj", v |-> a]
IS_OBJ(v) == v.t = "obj"
IS_NUMBER(v) == v.t = "num"

(***************************************************************************)
(* table.h: a Table maps ObjString* keys to values.  The model keeps the   *)
(* key-value relation as a function whose domain is the set of keys.       *)
(***************************************************************************)
EmptyTable == [k \in {} |-> NIL_VAL]
tableSet(t, k, v) == [x \in (DOMAIN t) \cup {k} |-> IF x = k THEN v ELSE t[x]]
tableHas(t, k) == k \in DOMAIN t
tableDelete(t, k) == [x \in (DOMAIN t) \ {k} |-> t[x]]
tableAddAll(from, to) ==
  [x \in (DOMAIN from) \cup (DOMAIN to) |-> IF x \in DOMAIN from THEN from[x] ELSE to[x]]

(***************************************************************************)
(* object.h: heap objects.  A slot of the heap that was never handed out   *)
(* is NoObj; a freed object keeps the bytes it held (old) because free()   *)
(* does not clear them, which is what a dangling pointer then points at.   *)
(***************************************************************************)
NoObj == [type |-> "none", isMarked |-> FALSE]
FreedObj(o) == [type |-> "freed", isMarked |-> FALSE, old |-> o]
StringObj(chars) == [type |-> "string", isMarked |-> FALSE, chars |-> chars]
NativeObj(fn, name) ==
  [type |-> "native", isMarked |-> FALSE, function |-> fn, name |-> name]
FunctionObj(arity, upvalueCount, name, constants, code) ==
  [type |-> "function", isMarked |-> FALSE, arity |-> arity,
   upvalueCount |-> upvalueCount, name |-> name, constants |-> constants,
   code |-> code]
ClosureObj(function, upvalues) ==
  [type |-> "closure", isMarked |-> FALSE, function |-> function,
   upvalues |-> upvalues]
UpvalueObj(location) ==
  [type |-> "upvalue", isMarked |-> FALSE, location |-> location,
   closed |-> NIL_VAL, next |-> 0]
ClassObj(name) ==
  [type |-> "class", isMarked |-> FALSE, name |-> name, superclass |-> 0,
   methods |-> EmptyTable, privates |-> EmptyTable]
InstanceObj(klass) ==
  [type |-> "instance", isMarked |-> FALSE, klass |-> klass, fields |-> EmptyTable]
BoundMethodObj(receiver, method) ==
  [type |-> "bound", isMarked |-> FALSE, receiver |-> receiver, method |-> method]
TableObj ==
  [type |-> "table", isMarked |-> FALSE, entries |-> EmptyTable, array |-> <<>>,
   capacity |-> 0]
TraitObj(name) ==
  [type |-> "trait", isMarked |-> FALSE, name |-> name, methods |-> EmptyTable]

IsLive(s, a) == a \in Addr /\ s.heap[a].type \notin {"none", "freed"}
IsType(s, v, ty) == IS_OBJ(v) /\ v.v \in Addr /\ s.heap[v.v].type = ty
IS_STRING(s, v) == IsType(s, v, "string")

(***************************************************************************)
(* Helpers over finite sets and sequences.                                 *)
(***************************************************************************)
(* vm.stack holds STACK_MAX zeroed values (NIL_VAL); the model keeps the    *)
(* slots that have been written.                                           *)
slotAt(s, i) == IF i \in DOMAIN s.stack THEN s.stack[i] ELSE NIL_VAL

Min(S) == CHOOSE x \in S : \A y \in S : x <= y
Range(f) == {f[x] : x \in DOMAIN f}
RECURSIVE SetToSeq(_)
SetToSeq(S) == IF S = {} THEN <<>> ELSE <<Min(S)>> \o SetToSeq(S \ {Min(S)})
RECURSIVE RemoveAt(_, _)
RemoveAt(q, a) ==
  IF q = <<>> THEN <<>>
  ELSE IF Head(q) = a THEN Tail(q) ELSE <<Head(q)>> \o RemoveAt(Tail(q), a)

(***************************************************************************)
(* object.c markObject / markValue and the gray worklist.  Marking reads   *)
(* the header of the object it is given: given a dangling pointer it reads *)
(* freed memory, which the model records in vm.ub.                         *)
(***************************************************************************)
markObject(s, a) ==
  IF a = 0 THEN s
  ELSE IF s.heap[a].type \in {"none", "freed"}
       THEN [s EXCEPT !.ub = IF @ = "" THEN "mark of freed object" ELSE @]
  ELSE IF s.heap[a].isMarked THEN s
  ELSE [s EXCEPT !.heap[a].isMarked = TRUE, !.grayStack = Append(@, a)]

markValue(s, v) == IF IS_OBJ(v) THEN markObject(s, v.v) ELSE s

(* The loops over an array split it in halves; the gray stack of s is read *)
(* first, so that each element is marked in a state already computed.     *)
RECURSIVE markArray(_, _)
markArray(s, arr) ==
  LET half == Len(arr) \div 2 IN
  IF Len(s.grayStack) < 0 \/ arr = <<>> THEN s
  ELSE IF Len(arr) = 1 THEN markValue(s, arr[1])
  ELSE markArray(markArray(s, SubSeq(arr, 1, half)), SubSeq(arr, half + 1, Len(arr)))

RECURSIVE markObjects(_, _)
markObjects(s, addrs) ==
  LET half == Len(addrs) \div 2 IN
  IF Len(s.grayStack) < 0 \/ addrs = <<>> THEN s
  ELSE IF Len(addrs) = 1 THEN markObject(s, addrs[1])
  ELSE markObjects(markObjects(s, SubSeq(addrs, 1, half)),
                   SubSeq(addrs, half + 1, Len(addrs)))

(* table.c markTable: every key and every value of the table. *)
markTable(s, t) ==
  LET keys == SetToSeq(DOMAIN t)
  IN markArray(markObjects(s, keys), [i \in 1..Len(keys) |-> t[keys[i]]])

(* The open-upvalue list from vm.openUpvalues through the next links. *)
RECURSIVE OpenList(_, _, _)
OpenList(s, u, fuel) ==
  IF u = 0 \/ fuel = 0 \/ s.heap[u].type # "upvalue" THEN <<>>
  ELSE <<u>> \o OpenList(s, s.heap[u].next, fuel - 1)
openUpvalueList(s) == OpenList(s, s.openUpvalues, MaxAddr)

(* compiler.c markCompilerRoots: the function of every compiler in progress. *)
markCompilerRoots(s) == markObjects(s, s.compiler)

(* memory.c markRoots. *)
markRoots(s) ==
  LET markStack(x) == markArray(x, [i \in 1..x.stackTop |-> slotAt(x, i - 1)])
      markFrames(x) ==
        markObjects(x, [i \in 1..x.frameCount |-> x.frames[i].closure])
      markOpenUpvalues(x) == markObjects(x, openUpvalueList(x))
      markGlobals(x) == markTable(x, x.globals)
      markInitString(x) == markObject(x, x.initString)
  IN markInitString(markCompilerRoots(markGlobals(markOpenUpvalues(
       markFrames(markStack(s))))))

(* object.c blackenObject: mark what the object refers to. *)
blackenObject(s, a) ==
  LET o == s.heap[a] IN
  CASE o.type = "upvalue" -> markValue(s, o.closed)
    [] o.type = "function" -> markArray(markObject(s, o.name), o.constants)
    [] o.type = "closure" -> markObjects(markObject(s, o.function), o.upvalues)
    [] o.type = "class" ->
         markTable(markObject(markObject(s, o.name), o.superclass), o.methods)
    [] o.type = "instance" -> markTable(markObject(s, o.klass), o.fields)
    [] o.type = "bound" -> markObject(markValue(s, o.receiver), o.method)
    [] o.type = "table" -> markArray(markTable(s, o.entries), o.array)
    [] o.type = "trait" -> markTable(markObject(s, o.name), o.methods)
    [] OTHER -> s

(* memory.c traceReferences: pop a gray object and blacken it until none. *)
RECURSIVE traceReferences(_)
traceReferences(s) ==
  IF s.grayStack = <<>> THEN s
  ELSE LET n == Len(s.grayStack)
           a == s.grayStack[n]
       IN traceReferences(blackenObject([s EXCEPT !.grayStack = SubSeq(@, 1, n - 1)], a))

(* Abstract size of an object in allocation units (the string's character   *)
(* buffer is a second allocation of one unit).                              *)
ObjSize(o) == IF o.type = "string" THEN 2 ELSE 1

(* memory.c sweep with object.c freeObject: walk vm.objects; a marked       *)
(* object is whitened and kept, an unmarked one is unlinked and freed.      *)
RECURSIVE sweepFromKeepsMark(_, _)
sweepFromKeepsMark(s, rest) ==
  IF rest = <<>> THEN s
  ELSE LET a == Head(rest) IN
       IF s.heap[a].isMarked
       THEN sweepFromKeepsMark(s, Tail(rest))
       ELSE sweepFromKeepsMark([s EXCEPT !.heap[a] = FreedObj(s.heap[a]),
                                         !.objects = RemoveAt(@, a),
                                         !.bytesAllocated = @ - ObjSize(s.heap[a])],
                               Tail(rest))
RECURSIVE sweepFrom(_, _)
sweepFrom(s, rest) ==
  IF rest = <<>> THEN s
  ELSE LET a == Head(rest) IN
       IF s.heap[a].isMarked
       THEN sweepFrom([s EXCEPT !.heap[a].isMarked = FALSE], Tail(rest))
       ELSE sweepFrom([s EXCEPT !.heap[a] = FreedObj(s.heap[a]),
                                !.objects = RemoveAt(@, a),
                                !.bytesAllocated = @ - ObjSize(s.heap[a]),
                                !.ub = IF @ = "" /\ ~IsLive(s, a)
                                       THEN "free of a freed object" ELSE @],
                      Tail(rest))
sweep(s) == sweepFrom(s, s.objects)

(***************************************************************************)
(* The object graph of object.h: the objects a value, a table or an        *)
(* object refers to through its pointer fields.  An upvalue's next field   *)
(* links the open-upvalue list, which is a root of its own.                *)
(***************************************************************************)
ValueRefs(vals) == {v.v : v \in {x \in vals : IS_OBJ(x)}}
TableRefs(t) == (DOMAIN t) \cup ValueRefs(Range(t))
ObjRefs(o) ==
  CASE o.type = "native" -> {o.name}
    [] o.type = "function" -> {o.name} \cup ValueRefs(Range(o.constants))
    [] o.type = "closure" -> {o.function} \cup Range(o.upvalues)
    [] o.type = "upvalue" -> ValueRefs({o.closed})
    [] o.type = "class" ->
         {o.name, o.superclass} \cup TableRefs(o.methods) \cup DOMAIN o.privates
    [] o.type = "instance" -> {o.klass} \cup TableRefs(o.fields)
    [] o.type = "bound" -> ValueRefs({o.receiver}) \cup {o.method}
    [] o.type = "table" -> TableRefs(o.entries) \cup ValueRefs(Range(o.array))
    [] o.type = "trait" -> {o.name} \cup TableRefs(o.methods)
    [] OTHER -> {}

(* The roots: stack slots below stackTop, the closures of the active       *)
(* frames, the open upvalues, the globals, the init string, the functions  *)
(* being compiled.                                                         *)
Roots(s) ==
  (ValueRefs({slotAt(s, i) : i \in 0..(s.stackTop - 1)})
   \cup {s.frames[i].closure : i \in 1..s.frameCount}
   \cup Range(openUpvalueList(s))
   \cup TableRefs(s.globals)
   \cup {s.initString}
   \cup Range(s.compiler)) \ {0}

RECURSIVE Closure(_, _)
Closure(s, S) ==
  LET T == (S \cup UNION {ObjRefs(s.heap[a]) : a \in S}) \ {0}
  IN IF T = S THEN S ELSE Closure(s, T)
Reachable(s) == Closure(s, Roots(s))

(* memory.c collectGarbage.  gcFreed records the objects a collection freed *)
(* although they were reachable when it started; swept records the last    *)
(* sweep: the list and the marked objects it started from, and the list,   *)
(* the objects still marked and the gray stack it left.                    *)
sweepRecord(traced, x) ==
  [before |-> traced.objects,
   marked |-> {a \in Addr : traced.heap[a].isMarked},
   objects |-> x.objects,
   stillMarked |-> {a \in Addr : x.heap[a].isMarked},
   grayStack |-> x.grayStack,
   freed |-> {a \in Addr : IsLive(traced, a) /\ ~IsLive(x, a)}]
collectGarbage(s) ==
  LET setNextGC(x) ==
        [x EXCEPT !.nextGC = x.bytesAllocated * GC_HEAP_GROW_FACTOR,
                  !.gcRan = TRUE,
                  !.gcFreed = @ \cup {a \in Reachable(s) :
                                        IsLive(s, a) /\ ~IsLive(x, a)}]
      swept(traced) ==
        [setNextGC(sweep(traced)) EXCEPT !.swept = sweepRecord(traced, sweep(traced))]
  IN swept(traceReferences(markRoots(s)))

(* memory.c reallocate, growing by size units. *)
reallocate(s, size) ==
  IF size > 0 /\ s.bytesAllocated + size > s.nextGC
  THEN collectGarbage([s EXCEPT !.bytesAllocated = @ + size])
  ELSE [s EXCEPT !.bytesAllocated = @ + size]

(* The address malloc hands out: the model never reuses an address. *)
Allocated(s) == Cardinality({a \in Addr : s.heap[a].type # "none"})
HasRoom(s, n) == Allocated(s) + n <= MaxObj
FreshAddr(s) == Min({a \in Addr : s.heap[a].type = "none"})

(* object.c allocateObject: reallocate, then link at the head of vm.objects. *)
allocateObject(s, o) ==
  LET link(x) ==
        [s |-> [x EXCEPT !.heap[FreshAddr(x)] = o,
                         !.objects = <<FreshAddr(x)>> \o @],
         r |-> FreshAddr(x)]
  IN link(reallocate(s, 1))

(***************************************************************************)
(* vm.c: the value stack.                                                  *)
(***************************************************************************)
setSlot(s, i, v) ==
  IF i < 0 \/ i >= STACK_MAX
  THEN [s EXCEPT !.ub = IF @ # "" THEN @
                        ELSE IF i = -1 THEN "write to vm.stack[-1]"
                        ELSE "write outside vm.stack"]
  ELSE [s EXCEPT !.stack = [x \in (DOMAIN @) \cup {i} |->
                             IF x = i THEN v ELSE @[x]]]
push(s, v) == [setSlot(s, s.stackTop, v) EXCEPT !.stackTop = @ + 1]

(* pop() below the stack base reads memory before vm.stack. *)
pop(s) ==
  IF s.stackTop <= 0
  THEN [s EXCEPT !.stackTop = @ - 1,
                 !.ub = IF @ = "" THEN "pop below the stack base" ELSE @]
  ELSE [s EXCEPT !.stackTop = @ - 1]
peek(s, distance) == slotAt(s, s.stackTop - 1 - distance)

resetStack(s) == [s EXCEPT !.stackTop = 0, !.frameCount = 0, !.frames = <<>>,
                           !.openUpvalues = 0]

(***************************************************************************)
(* table.c tableFindString on the intern table: the key whose characters   *)
(* equal chars, or NULL (0).  A key that the sweep freed is still in the   *)
(* table; comparing against it reads freed memory, which may or may not    *)
(* still hold the characters: both outcomes are possible.                  *)
(***************************************************************************)
LiveKeys(s, chars) ==
  {a \in DOMAIN s.strings : s.heap[a].type = "string" /\ s.heap[a].chars = chars}
DanglingKeys(s, chars) ==
  {a \in DOMAIN s.strings : s.heap[a].type = "freed" /\ s.heap[a].old.chars = chars}
tableFindString(s, chars) ==
  LiveKeys(s, chars) \cup DanglingKeys(s, chars) \cup
  (IF LiveKeys(s, chars) = {} THEN {0} ELSE {})

(* tableSet(&vm.strings, string, NIL_VAL): the entry array of a table that  *)
(* has no free slot for a new key is reallocated with GROW_CAPACITY, one   *)
(* allocation unit.  No key is ever deleted from vm.strings, so its        *)
(* capacity follows from its count.  unrooted records a string that a      *)
(* collection during this growth freed before it was interned.             *)
GROW_CAPACITY(capacity) == IF capacity < 8 THEN 8 ELSE capacity * 2
RECURSIVE capacityFor(_, _)
capacityFor(count, capacity) ==
  IF count <= capacity THEN capacity
  ELSE capacityFor(count, GROW_CAPACITY(capacity))
tableCapacity(t) == capacityFor(Cardinality(DOMAIN t), 0)
internString(s, string) ==
  LET set(x) ==
        [x EXCEPT !.strings = tableSet(@, string, NIL_VAL),
                  !.unrooted = IF IsLive(x, string) THEN @ ELSE @ \cup {string}]
  IN IF Cardinality(DOMAIN s.strings) + 1 > tableCapacity(s.strings)
     THEN set(reallocate(s, 1))
     ELSE set(s)

(* object.c allocateString: allocate the ObjString and intern it. *)
allocateString(s, chars) ==
  LET intern(m) == [s |-> internString(m.s, m.r), r |-> m.r]
  IN intern(allocateObject(s, StringObj(chars)))

(* object.c copyString; interned is what tableFindString returned. *)
copyString(s, chars, interned) ==
  IF interned # 0 THEN [s |-> s, r |-> interned]
  ELSE allocateString(reallocate(s, 1), chars)

(* object.c takeString: the caller has already allocated the characters. *)
takeString(s, chars, interned) ==
  IF interned # 0
  THEN [s |-> [s EXCEPT !.bytesAllocated = @ - 1], r |-> interned]
  ELSE allocateString(s, chars)

(* object.c newNative. *)
newNative(s, fn, name) == allocateObject(s, NativeObj(fn, name))

(* vm.c concatenate: the two strings on top of the stack are replaced. *)
concatenate(s, interned) ==
  LET b == s.heap[peek(s, 0).v].chars
      a == s.heap[peek(s, 1).v].chars
      result(m) == push(pop(pop(m.s)), OBJ_VAL(m.r))
  IN result(takeString(reallocate(s, 1), a \o b, interned))

(* vm.c defineNative. *)
defineNative(s, name, fn) ==
  LET pushResult(m) == push(m.s, OBJ_VAL(m.r))
      native(x) == newNative(x, fn, slotAt(x, 0).v)
      setGlobal(x) ==
        [x EXCEPT !.globals = tableSet(@, slotAt(x, 0).v, slotAt(x, 1))]
  IN pop(pop(setGlobal(pushResult(native(pushResult(copyString(s, name, 0)))))))

(* The natives the model registers, of the thirteen of initVM. *)
NativeNames == <<"print", "require">>

RECURSIVE defineNatives(_, _)
defineNatives(s, names) ==
  IF names = <<>> \/ s.bytesAllocated < 0 THEN s
  ELSE defineNatives(defineNative(s, Head(names), Head(names)), Tail(names))

(* vm.c initVM. *)
ZeroVM ==
  [heap |-> [a \in Addr |-> NoObj], objects |-> <<>>, grayStack |-> <<>>,
   bytesAllocated |-> 0, nextGC |-> 1024 * 1024,
   stack |-> [i \in {} |-> NIL_VAL], stackTop |-> 0,
   frames |-> <<>>, frameCount |-> 0, openUpvalues |-> 0,
   globals |-> EmptyTable, strings |-> EmptyTable, initString |-> 0,
   compiler |-> <<>>, loadedModules |-> EmptyTable,
   modulesInitialized |-> FALSE, ub |-> "", error |-> "", gcRan |-> FALSE,
   gcFreed |-> {}, unrooted |-> {},
   swept |-> [before |-> <<>>, marked |-> {}, objects |-> <<>>, stillMarked |-> {},
              grayStack |-> <<>>, freed |-> {}]]
initVMFrom(zero) ==
  LET setInitString(m) == [m.s EXCEPT !.initString = m.r]
  IN defineNatives(
       setInitString(copyString(resetStack(zero), "init", 0)), NativeNames)
initVM == initVMFrom(ZeroVM)

(***************************************************************************)
(* Host-level use of the VM (the unit tests and luapp_interop.c): strings  *)
(* are interned, values are pushed and popped, Lua functions are wrapped.  *)
(* host.ret is the value the last call returned to its C caller, host.last *)
(* the call itself.                                                        *)
(***************************************************************************)
MaxLen == 2
Chars == {"a", "b"}

HostInit ==
  [ret |-> NIL_VAL, last |-> [fn |-> "initVM", chars |-> ""],
   depth |-> 0, base |-> <<>>, loops |-> <<>>,
   entry |-> [stackTop |-> 0, frameCount |-> 0, stack |-> <<>>], result |-> "", source |-> "",
   calls |-> 0, steps |-> 0]

(* The first collection, 1 MiB of allocation away in the code, is FirstGC   *)
(* allocation units away in this specification.                            *)
Init ==
  /\ vm = [initVM EXCEPT !.nextGC = initVM.bytesAllocated + FirstGC]
  /\ host = HostInit

HostCopyString ==
  \E c \in Chars : \E interned \in tableFindString(vm, c) :
    /\ vm.ub = "" /\ HasRoom(vm, 1)
    /\ \E m \in {copyString(vm, c, interned)} :
         /\ vm' = m.s
         /\ host' = [host EXCEPT !.ret = OBJ_VAL(m.r),
                                 !.last = [fn |-> "copyString", chars |-> c]]

(* luapp_interop.c functionFromLua: a native named "<lua function>". *)
HostFunctionFromLua ==
  \E interned \in tableFindString(vm, "<lua function>") :
    /\ vm.ub = "" /\ HasRoom(vm, 2)
    /\ \E name \in {copyString(vm, "<lua function>", interned)} :
       \E native \in {newNative(name.s, "luaFuncWrapper", name.r)} :
         /\ vm' = native.s
         /\ host' = [host EXCEPT !.ret = OBJ_VAL(native.r),
                                 !.last = [fn |-> "functionFromLua", chars |-> ""]]

HostPush ==
  /\ vm.ub = "" /\ vm.stackTop < MaxStack
  /\ vm' = push(vm, host.ret)
  /\ host' = [host EXCEPT !.last = [fn |-> "push", chars |-> ""]]

HostPop ==
  /\ vm.ub = "" /\ vm.stackTop > 0
  /\ vm' = pop(vm)
  /\ host' = [host EXCEPT !.ret = peek(vm, 0),
                          !.last = [fn |-> "pop", chars |-> ""]]

(* OP_CONCAT of run(): both operands must be strings. *)
OpConcat ==
  /\ vm.ub = "" /\ vm.stackTop >= 2 /\ HasRoom(vm, 1)
  /\ IS_STRING(vm, peek(vm, 0)) /\ IS_STRING(vm, peek(vm, 1))
  /\ LET c == vm.heap[peek(vm, 1).v].chars \o vm.heap[peek(vm, 0).v].chars
     IN /\ Len(c) <= MaxLen
        /\ \E interned \in tableFindString(vm, c) :
             /\ vm' = concatenate(vm, interned)
             /\ host' = [host EXCEPT !.ret = peek(vm', 0),
                                     !.last = [fn |-> "takeString", chars |-> c]]

Next == HostCopyString \/ HostFunctionFromLua \/ HostPush \/ HostPop \/ OpConcat

Spec == Init /\ [][Next]_vars

(* value.c valuesEqual: objects are equal when they are the same object. *)
valuesEqual(a, b) == a.t = b.t /\ a.v = b.v

(***************************************************************************)
(* Claims about the collector and the intern table.                        *)
(***************************************************************************)

(* C1: a collection never frees an object that is reachable from the roots *)
(* (stack, frame closures, open upvalues, globals, initString, compiler    *)
(* functions) through the reference fields of the objects.                 *)
C1_ReachableSurvives == vm.gcFreed = {}

(* C3: the pointer copyString or takeString returns for some characters is *)
(* a live string, no other live string has the same characters, and        *)
(* valuesEqual holds of two live strings exactly when their characters are *)
(* equal.                                                                  *)
C3_OneStringPerContent ==
  host.last.fn \in {"copyString", "takeString"} =>
    /\ IS_STRING(vm, host.ret)
    /\ vm.heap[host.ret.v].chars = host.last.chars
    /\ \A a \in Addr :
         vm.heap[a].type = "string" =>
           (valuesEqual(OBJ_VAL(a), host.ret)
              <=> vm.heap[a].chars = host.last.chars)

(* C4: once a collection has run, no key of vm.strings is a freed object. *)
C4_NoFreedKey ==
  vm.gcRan => \A a \in DOMAIN vm.strings : IsLive(vm, a)

(***************************************************************************)
(* vm.c: calls, upvalues and the dispatch loop run().  A frame is          *)
(* [closure, ip, slots]: ip indexes the instructions of the function's     *)
(* chunk from 1, slots is the index of the frame's first stack slot.  An   *)
(* upvalue's location is a stack index while it is open and -1 once it     *)
(* points at its own closed field.                                         *)
(***************************************************************************)
Instr(op, a, b) == [op |-> op, a |-> a, b |-> b]

(* vm.c runtimeError: report, then resetStack. *)
runtimeError(s, message) == [resetStack(s) EXCEPT !.error = message]

newClosure(s, function) ==
  allocateObject(
    reallocate(s, IF s.heap[function].upvalueCount > 0 THEN 1 ELSE 0),
    ClosureObj(function, [i \in 1..s.heap[function].upvalueCount |-> 0]))
newUpvalue(s, slot) == allocateObject(s, UpvalueObj(slot))
newClass(s, name) == allocateObject(s, ClassObj(name))

(* vm.c call: r is the bool it returns. *)
call(s, closure, argCount) ==
  IF argCount # s.heap[s.heap[closure].function].arity
  THEN [s |-> runtimeError(s, "Expected arguments."), r |-> FALSE]
  ELSE IF s.frameCount = FRAMES_MAX
  THEN [s |-> runtimeError(s, "Stack overflow."), r |-> FALSE]
  ELSE [s |-> [s EXCEPT !.frameCount = @ + 1,
                        !.frames = SubSeq(@, 1, s.frameCount) \o
                          <<[closure |-> closure, ip |-> 1,
                             slots |-> s.stackTop - argCount - 1]>>],
        r |-> TRUE]

(* vm.c captureUpvalue: walk the list, sorted by descending location, to   *)
(* the first upvalue at or below the slot; reuse it or insert a new one.   *)
RECURSIVE findUpvalue(_, _, _, _)
findUpvalue(s, prev, upvalue, local) ==
  IF upvalue # 0 /\ s.heap[upvalue].location > local
  THEN findUpvalue(s, upvalue, s.heap[upvalue].next, local)
  ELSE [prev |-> prev, upvalue |-> upvalue]
(* captureUpvalue without the reuse of an upvalue already open at the slot. *)
captureUpvalueAlwaysNew(s, local) ==
  LET found == findUpvalue(s, 0, s.openUpvalues, local)
      insert(m) ==
        [s |-> IF found.prev = 0
               THEN [m.s EXCEPT !.heap[m.r].next = found.upvalue,
                                !.openUpvalues = m.r]
               ELSE [m.s EXCEPT !.heap[m.r].next = found.upvalue,
                                !.heap[found.prev].next = m.r],
         r |-> m.r]
  IN insert(newUpvalue(s, local))
captureUpvalue(s, local) ==
  LET found == findUpvalue(s, 0, s.openUpvalues, local)
      insert(m) ==
        [s |-> IF found.prev = 0
               THEN [m.s EXCEPT !.heap[m.r].next = found.upvalue,
                                !.openUpvalues = m.r]
               ELSE [m.s EXCEPT !.heap[m.r].next = found.upvalue,
                                !.heap[found.prev].next = m.r],
         r |-> m.r]
  IN IF found.upvalue # 0 /\ s.heap[found.upvalue].location = local
     THEN [s |-> s, r |-> found.upvalue]
     ELSE insert(newUpvalue(s, local))

(* vm.c closeUpvalues: close the upvalues at or above last, from the head   *)
(* of the list.  closeUpvaluesAbove leaves the upvalue of the slot last open.*)
RECURSIVE closeUpvaluesAbove(_, _)
closeUpvaluesAbove(s, last) ==
  IF s.openUpvalues # 0 /\ s.heap[s.openUpvalues].location > last
  THEN closeUpvaluesAbove(
         [s EXCEPT !.heap[s.openUpvalues].closed =
                     slotAt(s, s.heap[s.openUpvalues].location),
                   !.heap[s.openUpvalues].location = -1,
                   !.openUpvalues = s.heap[s.openUpvalues].next],
         last)
  ELSE s
RECURSIVE closeUpvalues(_, _)
closeUpvalues(s, last) ==
  IF s.openUpvalues # 0 /\ s.heap[s.openUpvalues].location >= last
  THEN closeUpvalues(
         [s EXCEPT !.heap[s.openUpvalues].closed =
                     slotAt(s, s.heap[s.openUpvalues].location),
                   !.heap[s.openUpvalues].location = -1,
                   !.openUpvalues = s.heap[s.openUpvalues].next],
         last)
  ELSE s

(***************************************************************************)
(* compiler.c: what compileWithFilename produces for the sources the        *)
(* model runs.  A source compiles to a list of functions, the script last;  *)
(* a constant is a number, a string or one of the functions before it.      *)
(***************************************************************************)
Tmpl(name, arity, upvalueCount, consts, code) ==
  [name |-> name, arity |-> arity, upvalueCount |-> upvalueCount,
   consts |-> consts, code |-> code]
Num(n) == [k |-> "num", v |-> n]
Str(c) == [k |-> "str", v |-> c]
Fn(i) == [k |-> "fn", v |-> i]
I0(op) == Instr(op, 0, <<>>)
I1(op, a) == Instr(op, a, <<>>)

(* emitReturn: every function ends in OP_NIL OP_RETURN. *)
emitReturn == <<I0("OP_NIL"), I0("OP_RETURN")>>

(* expressionStatement of a call of a global without arguments. *)
callGlobal(k) == <<I1("OP_GET_GLOBAL", k), I1("OP_CALL", 0), I0("OP_POP")>>

DeepRequire ==
  "function r(n) if n == 0 then require(\"m\") else r(n - 1) end end r(62)"
StaleUpvalue ==
  "local x = 1 function set() x = 5 end function mk() local a = 1 class A end end boom()"
Chunks(source) ==
  CASE source = "local x = 1" ->
         <<Tmpl("", 0, 0, <<Num(1)>>, <<I1("OP_CONSTANT", 0)>> \o emitReturn)>>
    [] source = "boom()" ->
         <<Tmpl("", 0, 0, <<Str("boom")>>, callGlobal(0) \o emitReturn)>>
    [] source = "function f() boom() end f()" ->
         <<Tmpl("f", 0, 0, <<Str("boom")>>, callGlobal(0) \o emitReturn),
           Tmpl("", 0, 0, <<Str("f"), Fn(1)>>,
                <<Instr("OP_CLOSURE", 1, <<>>), I1("OP_DEFINE_GLOBAL", 0)>>
                \o callGlobal(0) \o emitReturn)>>
    [] source = "function g() end" ->
         <<Tmpl("g", 0, 0, <<>>, emitReturn),
           Tmpl("", 0, 0, <<Str("g"), Fn(1)>>,
                <<Instr("OP_CLOSURE", 1, <<>>), I1("OP_DEFINE_GLOBAL", 0)>>
                \o emitReturn)>>
    [] source = "require(\"m\")" ->
         <<Tmpl("", 0, 0, <<Str("require"), Str("m")>>,
                <<I1("OP_GET_GLOBAL", 0), I1("OP_CONSTANT", 1),
                  I1("OP_CALL", 1), I0("OP_POP")>> \o emitReturn)>>
    [] source = "require(\"bad\")" ->
         <<Tmpl("", 0, 0, <<Str("require"), Str("bad")>>,
                <<I1("OP_GET_GLOBAL", 0), I1("OP_CONSTANT", 1),
                  I1("OP_CALL", 1), I0("OP_POP")>> \o emitReturn)>>
    [] source = "local x = 1 function inc() x = x + 1 end function get() return x end inc() local a = get()" ->
         <<Tmpl("inc", 0, 1, <<Num(1)>>,
                <<I1("OP_GET_UPVALUE", 0), I1("OP_CONSTANT", 0), I0("OP_ADD"),
                  I1("OP_SET_UPVALUE", 0), I0("OP_POP")>> \o emitReturn),
           Tmpl("get", 0, 1, <<>>,
                <<I1("OP_GET_UPVALUE", 0), I0("OP_RETURN")>> \o emitReturn),
           Tmpl("", 0, 0, <<Num(1), Str("inc"), Fn(1), Str("get"), Fn(2)>>,
                <<I1("OP_CONSTANT", 0),
                  Instr("OP_CLOSURE", 2, <<<<1, 1>>>>), I1("OP_DEFINE_GLOBAL", 1),
                  Instr("OP_CLOSURE", 4, <<<<1, 1>>>>), I1("OP_DEFINE_GLOBAL", 3)>>
                \o callGlobal(1)
                \o <<I1("OP_GET_GLOBAL", 3), I1("OP_CALL", 0)>> \o emitReturn)>>
    [] source = "inc() local b = get()" ->
         <<Tmpl("", 0, 0, <<Str("inc"), Str("get")>>,
                callGlobal(0)
                \o <<I1("OP_GET_GLOBAL", 1), I1("OP_CALL", 0)>> \o emitReturn)>>
    [] source = DeepRequire ->
         <<Tmpl("r", 1, 0, <<Num(0), Str("require"), Str("m"), Str("r"), Num(1)>>,
                <<I1("OP_GET_LOCAL", 1), I1("OP_CONSTANT", 0), I0("OP_EQUAL"),
                  I1("OP_JUMP_IF_FALSE", 11), I0("OP_POP"),
                  I1("OP_GET_GLOBAL", 1), I1("OP_CONSTANT", 2), I1("OP_CALL", 1),
                  I0("OP_POP"), I1("OP_JUMP", 18), I0("OP_POP"),
                  I1("OP_GET_GLOBAL", 3), I1("OP_GET_LOCAL", 1), I1("OP_CONSTANT", 4),
                  I0("OP_SUBTRACT"), I1("OP_CALL", 1), I0("OP_POP")>> \o emitReturn),
           Tmpl("", 0, 0, <<Str("r"), Fn(1), Num(FRAMES_MAX - 2)>>,
                <<Instr("OP_CLOSURE", 1, <<>>), I1("OP_DEFINE_GLOBAL", 0),
                  I1("OP_GET_GLOBAL", 0), I1("OP_CONSTANT", 2), I1("OP_CALL", 1),
                  I0("OP_POP")>> \o emitReturn)>>
    [] source = StaleUpvalue ->
         <<Tmpl("set", 0, 1, <<Num(5)>>,
                <<I1("OP_CONSTANT", 0), I1("OP_SET_UPVALUE", 0), I0("OP_POP")>>
                \o emitReturn),
           Tmpl("mk", 0, 0, <<Num(1), Str("A")>>,
                <<I1("OP_CONSTANT", 0), I1("OP_CLASS", 1), I1("OP_GET_LOCAL", 2),
                  I0("OP_POP")>> \o emitReturn),
           Tmpl("", 0, 0, <<Num(1), Str("set"), Fn(1), Str("mk"), Fn(2), Str("boom")>>,
                <<I1("OP_CONSTANT", 0),
                  Instr("OP_CLOSURE", 2, <<<<1, 1>>>>), I1("OP_DEFINE_GLOBAL", 1),
                  Instr("OP_CLOSURE", 4, <<>>), I1("OP_DEFINE_GLOBAL", 3)>>
                \o callGlobal(5) \o emitReturn)>>
    [] source = "function mk() class A end end" ->
         <<Tmpl("mk", 0, 0, <<Str("A")>>,
                <<I1("OP_CLASS", 0), I1("OP_GET_LOCAL", 1), I0("OP_POP")>>
                \o emitReturn),
           Tmpl("", 0, 0, <<Str("mk"), Fn(1)>>,
                <<Instr("OP_CLOSURE", 1, <<>>), I1("OP_DEFINE_GLOBAL", 0)>>
                \o emitReturn)>>
    [] OTHER -> <<>>

(***************************************************************************)
(* compiler.c: the single-pass compiler, on programs given as syntax       *)
(* trees (the Pratt parser visits an expression's operands left to right   *)
(* and then its operator).  A Compiler is [code, consts, locals,           *)
(* scopeDepth, loops, error, fold]: locals are [name, depth], loops are    *)
(* [scopeDepth, continueTarget, breakJumps], error is the first error      *)
(* reported, and fold tells whether the constant folding of unary and      *)
(* binary is present (it is in compiler.c).  Code offsets are instruction  *)
(* indexes: a jump holds the index of its target, 0 until patched.  The    *)
(* folding helpers look at the last instructions of the chunk, which is    *)
(* what the byte tests of lastWasConstant see when no operand byte equals  *)
(* OP_CONSTANT.                                                            *)
(***************************************************************************)
Bool(b) == [k |-> "bool", v |-> b]
error(c, message) == IF c.error = "" THEN [c EXCEPT !.error = message] ELSE c
emitByte(c, i) == [c EXCEPT !.code = Append(@, i)]
emitConstant(c, value) ==
  [c EXCEPT !.consts = Append(@, value),
            !.code = Append(@, I1("OP_CONSTANT", Len(c.consts)))]
emitJump(c, op) == emitByte(c, I1(op, 0))
patchJump(c, offset) == [c EXCEPT !.code[offset].a = Len(c.code) + 1]
(* emitLoop: a loopStart below 0 stands for one more than UINT16_MAX bytes  *)
(* before the end of the chunk.                                            *)
emitLoop(c, loopStart) ==
  emitByte(IF loopStart < 0 THEN error(c, "Loop body too large.") ELSE c,
           I1("OP_LOOP", loopStart))

lastWasConstant(c) ==
  Len(c.code) >= 1 /\ c.code[Len(c.code)].op = "OP_CONSTANT"
lastTwoWereConstants(c) ==
  /\ Len(c.code) >= 2 /\ c.code[Len(c.code)].op = "OP_CONSTANT"
  /\ c.code[Len(c.code) - 1].op = "OP_CONSTANT"
lastConstant(c, back) == c.consts[c.code[Len(c.code) - back].a + 1]
removeLast(c, n) == [c EXCEPT !.code = SubSeq(@, 1, Len(@) - n)]

(* compiler.c resolveLocal: the slot of the innermost local of that name,  *)
(* -1 when there is none.                                                  *)
localSlots(c, name) == {i \in 1..Len(c.locals) : c.locals[i].name = name}
resolveLocal(c, name) ==
  IF localSlots(c, name) = {} THEN -1
  ELSE (CHOOSE i \in localSlots(c, name) : \A j \in localSlots(c, name) : j <= i) - 1
readLocal(c, name) ==
  IF resolveLocal(c, name) # -1 /\ c.locals[resolveLocal(c, name) + 1].depth = -1
  THEN error(c, "Can't read local variable in its own initializer.") ELSE c

(* The operator emitted by binary when it does not fold. *)
binaryOps(op) ==
  CASE op = "+" -> <<I0("OP_ADD")>>
    [] op = "-" -> <<I0("OP_SUBTRACT")>>
    [] op = "==" -> <<I0("OP_EQUAL")>>
    [] op = ">" -> <<I0("OP_GREATER")>>
    [] op = ">=" -> <<I0("OP_LESS"), I0("OP_NOT")>>
    [] op = "<" -> <<I0("OP_LESS")>>
    [] OTHER -> <<I0("OP_GREATER"), I0("OP_NOT")>>
foldNumbers(op, numA, numB) ==
  CASE op = "+" -> Num(numA + numB)
    [] op = "-" -> Num(numA - numB)
    [] op = "==" -> Bool(numA = numB)
    [] op = ">" -> Bool(numA > numB)
    [] op = ">=" -> Bool(numA >= numB)
    [] op = "<" -> Bool(numA < numB)
    [] OTHER -> Bool(numA <= numB)

(* compiler.c binary, after the right operand has been compiled. *)
binary(c, op) ==
  LET a == lastConstant(c, 1)
      b == lastConstant(c, 0)
  IN IF c.fold /\ lastTwoWereConstants(c) /\ a.k = "num" /\ b.k = "num"
     THEN emitConstant(removeLast(c, 2), foldNumbers(op, a.v, b.v))
     ELSE IF c.fold /\ lastTwoWereConstants(c) /\ op = "=="
     THEN emitConstant(removeLast(c, 2), Bool(a.k = b.k /\ a.v = b.v))
     ELSE [c EXCEPT !.code = @ \o binaryOps(op)]

(* compiler.c unary, after the operand has been compiled. *)
unary(c, op) ==
  LET val == lastConstant(c, 0)
  IN IF c.fold /\ lastWasConstant(c) /\ op = "-" /\ val.k = "num"
     THEN emitConstant(removeLast(c, 1), Num(0 - val.v))
     ELSE IF c.fold /\ lastWasConstant(c) /\ op = "not"
     THEN emitConstant(removeLast(c, 1), Bool(val.k = "bool" /\ ~val.v))
     ELSE emitByte(c, I0(IF op = "-" THEN "OP_NEGATE" ELSE "OP_NOT"))

(* identifierConstant: the constant's index is Len(c.consts). *)
identifierConstant(c, name) == [c EXCEPT !.consts = Append(@, Str(name))]

(* addUpvalue and resolveUpvalue: r is the upvalue's index, -1 when the    *)
(* name is no local of an enclosing function; c.enclosing is <<>> or the   *)
(* one enclosing compiler.                                                 *)
addUpvalue(c, index, isLocal) ==
  LET same == {i \in 1..Len(c.upvalues) :
                 c.upvalues[i] = [index |-> index, isLocal |-> isLocal]}
  IN IF same # {} THEN [c |-> c, r |-> (CHOOSE i \in same : TRUE) - 1]
     ELSE [c |-> [c EXCEPT !.upvalues =
                     Append(@, [index |-> index, isLocal |-> isLocal])],
           r |-> Len(c.upvalues)]
RECURSIVE resolveUpvalue(_, _)
resolveUpvalue(c, name) ==
  LET local == IF c.enclosing = <<>> THEN -1 ELSE resolveLocal(c.enclosing[1], name)
      captured ==
        [c EXCEPT !.enclosing[1] =
           [readLocal(@, name) EXCEPT !.locals[local + 1].isCaptured = TRUE]]
      outer(up) ==
        IF up.r = -1 THEN [c |-> c, r |-> -1]
        ELSE addUpvalue([c EXCEPT !.enclosing[1] = up.c], up.r, FALSE)
  IN IF c.enclosing = <<>> THEN [c |-> c, r |-> -1]
     ELSE IF local # -1 THEN addUpvalue(captured, local, TRUE)
     ELSE outer(resolveUpvalue(c.enclosing[1], name))

(* namedVariable reading a name: a local, an upvalue or else a global. *)
namedVariable(c, name) ==
  LET upvalue(up) ==
        IF up.r # -1 THEN emitByte(up.c, I1("OP_GET_UPVALUE", up.r))
        ELSE [c EXCEPT !.consts = Append(@, Str(name)),
                       !.code = Append(@, I1("OP_GET_GLOBAL", Len(c.consts)))]
  IN IF resolveLocal(c, name) # -1
     THEN emitByte(readLocal(c, name), I1("OP_GET_LOCAL", resolveLocal(c, name)))
     ELSE upvalue(resolveUpvalue(c, name))

(* expression(): number, literal, variable, grouping, unary, binary, and_, *)
(* or_ and the assignment of namedVariable.                                *)
RECURSIVE expression(_, _)
RECURSIVE argumentList(_, _)
argumentList(c, arguments) ==
  IF arguments = <<>> THEN c
  ELSE argumentList(expression(c, Head(arguments)), Tail(arguments))
expression(c, e) ==
  LET and_(x) == patchJump(expression(emitByte(x, I0("OP_POP")), e.r), Len(x.code))
      or_(x) ==
        patchJump(expression(emitByte(patchJump(x, Len(x.code) - 1), I0("OP_POP")),
                             e.r),
                  Len(x.code))
  IN CASE e.k = "num" -> emitConstant(c, Num(e.v))
       [] e.k = "true" -> emitByte(c, I0("OP_TRUE"))
       [] e.k = "false" -> emitByte(c, I0("OP_FALSE"))
       [] e.k = "nil" -> emitByte(c, I0("OP_NIL"))
       [] e.k = "var" -> namedVariable(c, e.name)
       [] e.k = "assign" ->
            IF resolveLocal(c, e.name) # -1
            THEN emitByte(expression(readLocal(c, e.name), e.r),
                          I1("OP_SET_LOCAL", resolveLocal(c, e.name)))
            ELSE IF resolveUpvalue(c, e.name).r # -1
            THEN emitByte(expression(resolveUpvalue(c, e.name).c, e.r),
                          I1("OP_SET_UPVALUE", resolveUpvalue(c, e.name).r))
            ELSE emitByte(expression([c EXCEPT !.consts = Append(@, Str(e.name))],
                                     e.r),
                          I1("OP_SET_GLOBAL", Len(c.consts)))
       [] e.k = "self" ->
            IF c.currentClass = <<>>
            THEN error(c, "cannot use 'self' outside of a class")
            ELSE namedVariable(c, "self")
       [] e.k = "super" ->
            emitByte(
              namedVariable(
                argumentList(
                  namedVariable(
                    identifierConstant(
                      IF c.currentClass = <<>>
                      THEN error(c, "cannot use 'super' outside of a class")
                      ELSE IF ~c.currentClass[1]
                      THEN error(c, "cannot use 'super' in a class with no superclass")
                      ELSE c,
                      e.name),
                    "self"),
                  e.args),
                "super"),
              Instr("OP_SUPER_INVOKE", Len(c.consts), Len(e.args)))
       [] e.k = "new" ->
            emitByte(argumentList(emitByte(identifierConstant(c, e.name),
                                           I1("OP_GET_GLOBAL", Len(c.consts))),
                                  e.args),
                     I1("OP_NEW", Len(e.args)))
       [] e.k = "invoke" ->
            emitByte(argumentList(identifierConstant(expression(c, e.l), e.name),
                                  e.args),
                     Instr("OP_INVOKE", Len(expression(c, e.l).consts), Len(e.args)))
       [] e.k = "call" ->
            emitByte(argumentList(expression(c, e.l), e.args),
                     I1("OP_CALL", Len(e.args)))
       [] e.k = "group" -> expression(c, e.r)
       [] e.k = "unary" -> unary(expression(c, e.r), e.op)
       [] e.k = "binary" -> binary(expression(expression(c, e.l), e.r), e.op)
       [] e.k = "and" -> and_(emitJump(expression(c, e.l), "OP_JUMP_IF_FALSE"))
       [] OTHER ->
            or_(emitJump(emitJump(expression(c, e.l), "OP_JUMP_IF_FALSE"), "OP_JUMP"))

(* Scopes and locals. *)
beginScope(c) == [c EXCEPT !.scopeDepth = @ + 1]
RECURSIVE endScopeFrom(_)
endScopeFrom(c) ==
  IF Len(c.locals) > 0 /\ c.locals[Len(c.locals)].depth > c.scopeDepth
  THEN endScopeFrom([emitByte(c, I0(IF c.locals[Len(c.locals)].isCaptured
                                       THEN "OP_CLOSE_UPVALUE" ELSE "OP_POP"))
                      EXCEPT !.locals = SubSeq(@, 1, Len(@) - 1)])
  ELSE c
endScope(c) == endScopeFrom([c EXCEPT !.scopeDepth = @ - 1])
addLocal(c, name) ==
  [c EXCEPT !.locals = Append(@, [name |-> name, depth |-> -1,
                                  isCaptured |-> FALSE])]
markInitialized(c) ==
  IF c.scopeDepth = 0 THEN c
  ELSE [c EXCEPT !.locals[Len(c.locals)].depth = c.scopeDepth]
declareLocalVariable(c, name) ==
  LET outer(j) == c.locals[j].depth # -1 /\ c.locals[j].depth < c.scopeDepth
  IN addLocal(IF \E i \in 1..Len(c.locals) :
                   /\ c.locals[i].name = name
                   /\ \A j \in i..Len(c.locals) : ~outer(j)
              THEN error(c, "Already a variable with this name in this scope.")
              ELSE c,
              name)

(* The number of OP_POP that break and continue emit. *)
RECURSIVE loopLocals(_, _)
loopLocals(c, i) ==
  IF i >= 1 /\ c.locals[i].depth > c.loops[Len(c.loops)].scopeDepth
  THEN 1 + loopLocals(c, i - 1) ELSE 0
emitPops(c, n) == [c EXCEPT !.code = @ \o [k \in 1..n |-> I0("OP_POP")]]
RECURSIVE patchJumps(_, _)
patchJumps(c, jumps) ==
  IF jumps = <<>> THEN c ELSE patchJumps(patchJump(c, Head(jumps)), Tail(jumps))
(* Entering a loop whose Loop struct has continueTarget target, and leaving *)
(* it: the break jumps are patched.                                         *)
enterLoop(c, target) ==
  [c EXCEPT !.loops = Append(@, [scopeDepth |-> c.scopeDepth,
                                 continueTarget |-> target, breakJumps |-> <<>>])]
leaveLoop(c) ==
  [patchJumps(c, c.loops[Len(c.loops)].breakJumps) EXCEPT
     !.loops = SubSeq(@, 1, Len(@) - 1)]

breakStatement(c) ==
  IF c.loops = <<>> THEN error(c, "cannot use 'break' outside of a loop")
  ELSE [emitJump(emitPops(c, loopLocals(c, Len(c.locals))), "OP_JUMP") EXCEPT
          !.loops[Len(c.loops)].breakJumps =
             Append(@, Len(c.code) + loopLocals(c, Len(c.locals)) + 1)]
continueStatement(c) ==
  IF c.loops = <<>> THEN error(c, "cannot use 'continue' outside of a loop")
  ELSE emitLoop(emitPops(c, loopLocals(c, Len(c.locals))),
                c.loops[Len(c.loops)].continueTarget)

RECURSIVE block(_, _)
RECURSIVE elseifChain(_, _, _)

(* initCompiler: enclosing is <<>> or the compiler of the function being   *)
(* compiled around this one; fns are the functions compiled so far, in the *)
(* order in which endCompiler finished them.  Slot 0 is self in methods.   *)
initCompiler(enclosing, type, fns, hadError, fold, junk) ==
  [code |-> <<>>, consts |-> <<>>,
   locals |-> <<[name |-> IF type \in {"TYPE_METHOD", "TYPE_INITIALIZER"}
                          THEN "self" ELSE "",
                 depth |-> 0, isCaptured |-> FALSE]>>,
   scopeDepth |-> 0, loops |-> <<>>, error |-> hadError, fold |-> fold,
   junk |-> junk, enclosing |-> enclosing, type |-> type, fns |-> fns,
   upvalues |-> <<>>,
   currentClass |-> IF enclosing = <<>> THEN <<>> ELSE enclosing[1].currentClass]
(* emitReturn for the function being compiled. *)
emitReturnOf(c) ==
  IF c.type = "TYPE_INITIALIZER" THEN <<I1("OP_GET_LOCAL", 0), I0("OP_RETURN")>>
  ELSE emitReturn
(* endCompiler: the functions compiled so far, this one last. *)
endCompiler(c, name, arity) ==
  Append(c.fns, Tmpl(name, arity, Len(c.upvalues), c.consts,
                     c.code \o emitReturnOf(c)))

(* function(): the body is compiled by a new compiler; OP_CLOSURE with the *)
(* function as a constant and one (isLocal, index) pair per upvalue.       *)
RECURSIVE parameters(_, _)
parameters(c, names) ==
  IF names = <<>> THEN c
  ELSE parameters(markInitialized(declareLocalVariable(c, Head(names))),
                  Tail(names))
function(c, type, st) ==
  LET pairs(x) ==
        [i \in 1..Len(x.upvalues) |->
           <<IF x.upvalues[i].isLocal THEN 1 ELSE 0, x.upvalues[i].index>>]
      closure(x, outer) ==
        [outer EXCEPT
           !.fns = endCompiler(x, st.name, Len(st.params)),
           !.error = IF x.error # "" THEN x.error ELSE outer.error,
           !.consts = Append(@, Fn(Len(x.fns) + 1)),
           !.code = Append(@, Instr("OP_CLOSURE", Len(outer.consts), pairs(x)))]
      end(x) == closure(x, x.enclosing[1])
  IN end(block(parameters(beginScope(initCompiler(<<c>>, type, c.fns, c.error,
                                                  c.fold, c.junk)),
                          st.params),
               st.body))

(* localStatement, the `local name = e` form. *)
localStatement(c, st) ==
  LET slot == Len(c.locals) + 1
      init(x) == [x EXCEPT !.locals[slot].depth = x.scopeDepth]
  IN IF st.k = "local function"
     THEN function(markInitialized(declareLocalVariable(c, st.name)),
                   "TYPE_FUNCTION", st)
     ELSE init(expression(declareLocalVariable(c, st.name), st.e))

(* method() and classDeclaration(): c.currentClass holds hasSuperclass of *)
(* the classes being compiled, innermost first.                           *)
method(c, st) ==
  emitByte(function(identifierConstant(c, st.name),
                    IF st.name = "init" THEN "TYPE_INITIALIZER" ELSE "TYPE_METHOD",
                    st),
           I1("OP_METHOD", Len(c.consts)))
RECURSIVE methods(_, _)
methods(c, list) ==
  IF list = <<>> \/ c.scopeDepth < 0 THEN c
  ELSE methods(method(c, Head(list)), Tail(list))
(* The `implements` list of classDeclaration: trait, class, OP_IMPLEMENT. *)
RECURSIVE implements(_, _, _)
implements(c, className, traits) ==
  IF traits = <<>> THEN c
  ELSE implements(emitByte(namedVariable(namedVariable(c, Head(traits)), className),
                           I0("OP_IMPLEMENT")),
                  className, Tail(traits))
classDeclaration(c, st) ==
  LET declared(x) ==
        IF x.scopeDepth = 0
        THEN [x EXCEPT !.code = @ \o <<I1("OP_CLASS", Len(c.consts)),
                                       I1("OP_DEFINE_GLOBAL", Len(c.consts))>>]
        ELSE markInitialized(emitByte(declareLocalVariable(x, st.name),
                                      I1("OP_CLASS", Len(c.consts))))
      itself(x) ==
        IF st.super = <<st.name>>
        THEN error(x, "a class cannot inherit from itself") ELSE x
      extends(x) ==
        IF st.super = <<>> THEN [x EXCEPT !.currentClass = <<FALSE>> \o @]
        ELSE [emitByte(
                namedVariable(
                  markInitialized(
                    addLocal(beginScope(itself(namedVariable(x, st.super[1]))),
                             "super")),
                  st.name),
                I0("OP_INHERIT"))
              EXCEPT !.currentClass = <<TRUE>> \o @]
      body(x) == emitByte(methods(namedVariable(x, st.name), st.methods), I0("OP_POP"))
      end(x) ==
        [IF st.super = <<>> THEN x ELSE endScope(x) EXCEPT !.currentClass = Tail(@)]
  IN end(body(implements(extends(declared(identifierConstant(c, st.name))),
                         st.name, st.traits)))
(* traitDeclaration(): the methods are bound to the trait on the stack. *)
traitDeclaration(c, st) ==
  LET declared(x) ==
        IF x.scopeDepth = 0
        THEN [x EXCEPT !.code = @ \o <<I1("OP_TRAIT", Len(c.consts)),
                                       I1("OP_DEFINE_GLOBAL", Len(c.consts))>>]
        ELSE markInitialized(emitByte(declareLocalVariable(x, st.name),
                                      I1("OP_TRAIT", Len(c.consts))))
      body(x) ==
        emitByte(methods(namedVariable([x EXCEPT !.currentClass = <<FALSE>> \o @],
                                       st.name),
                         st.methods),
                 I0("OP_POP"))
      end(x) == [x EXCEPT !.currentClass = Tail(@)]
  IN end(body(declared(identifierConstant(c, st.name))))

(* returnStatement, with a value (st.e is <<e>>) or without (<<>>). *)
returnStatement(c, st) ==
  LET script(x) ==
        IF x.type = "TYPE_SCRIPT" THEN error(x, "cannot return from top-level code")
        ELSE x
      value(x) ==
        IF x.type = "TYPE_INITIALIZER"
        THEN error(x, "Can't return a value from an initializer.") ELSE x
  IN IF st.e = <<>> THEN [script(c) EXCEPT !.code = @ \o emitReturnOf(c)]
     ELSE emitByte(expression(value(script(c)), st.e[1]), I0("OP_RETURN"))

expressionStatement(c, st) == emitByte(expression(c, st.e), I0("OP_POP"))

(* ifStatement: arms are the if and elseif [cond, body]; j is the pending  *)
(* jump over the rest of the chain.                                        *)
elseifChain(c, arms, elseJump) ==
  LET body(x) == emitJump(block(emitByte(x, I0("OP_POP")), Head(arms).body), "OP_JUMP")
      rest(y, nextJump) ==
        elseifChain(emitByte(patchJump(patchJump(y, elseJump), nextJump), I0("OP_POP")),
                    Tail(arms), Len(y.code))
      arm(x) == rest(body(x), Len(x.code))
  IN IF arms = <<>> THEN [c |-> c, elseJump |-> elseJump]
     ELSE arm(emitJump(expression(c, Head(arms).cond), "OP_JUMP_IF_FALSE"))
ifStatement(c, st) ==
  LET body(x) == emitJump(block(emitByte(x, I0("OP_POP")), st.arms[1].body), "OP_JUMP")
      rest(y, thenJump) ==
        elseifChain(emitByte(patchJump(y, thenJump), I0("OP_POP")),
                    Tail(st.arms), Len(y.code))
      first(x) == rest(body(x), Len(x.code))
      last(m) == patchJump(block(m.c, st.else), m.elseJump)
  IN last(first(emitJump(expression(c, st.arms[1].cond), "OP_JUMP_IF_FALSE")))

(* The end of a loop: jump back, exit label, break labels. *)
endLoop(c, loopStart, exitJump) ==
  leaveLoop(emitByte(patchJump(emitLoop(c, loopStart), exitJump), I0("OP_POP")))

whileStatement(c, st) ==
  LET body(x, loopStart) ==
        endLoop(block(emitByte(x, I0("OP_POP")), st.body), loopStart, Len(x.code))
  IN body(emitJump(expression(enterLoop(c, Len(c.code) + 1), st.cond),
                   "OP_JUMP_IF_FALSE"),
          Len(c.code) + 1)

repeatStatement(c, st) ==
  LET until(x, loopStart) ==
        endLoop(emitByte(x, I0("OP_POP")), loopStart, Len(x.code))
  IN until(emitJump(expression(block(enterLoop(c, Len(c.code) + 1), st.body),
                               st.cond),
                    "OP_JUMP_IF_FALSE"),
           Len(c.code) + 1)

(* forStatement.  The Loop struct's continueTarget is assigned after the   *)
(* body has been compiled: while the body is compiled it holds whatever    *)
(* the stack held, c.junk.                                                 *)
forStatement(c, st) ==
  LET hidden(x) == markInitialized(addLocal(x, ""))
      localCount(x) == Len(x.locals)
      var(x) == markInitialized(expression(x, st.a))
      limit(x) == expression(hidden(x), st.b)
      step(x) == IF st.hasStep THEN expression(hidden(x), st.s)
                 ELSE emitConstant(hidden(x), Num(1))
      test(x) ==
        [x EXCEPT !.code = @ \o <<I1("OP_GET_LOCAL", localCount(x) - 3),
                                   I1("OP_GET_LOCAL", localCount(x) - 2),
                                   I0("OP_GREATER"), I0("OP_NOT")>>]
      increment(x) ==
        [x EXCEPT !.code = @ \o <<I1("OP_GET_LOCAL", localCount(x) - 3),
                                   I1("OP_GET_LOCAL", localCount(x) - 1),
                                   I0("OP_ADD"),
                                   I1("OP_SET_LOCAL", localCount(x) - 3),
                                   I0("OP_POP")>>]
      body(x, loopStart) ==
        endLoop(increment(block(enterLoop(emitByte(x, I0("OP_POP")), c.junk),
                                st.body)),
                loopStart, Len(x.code))
      loop(x) == body(emitJump(test(x), "OP_JUMP_IF_FALSE"), Len(x.code) + 1)
  IN endScope(loop(step(limit(var(declareLocalVariable(beginScope(c), st.name))))))

(* declaration() and statement(). *)
RECURSIVE declaration(_, _)
declaration(c, st) ==
  CASE st.k \in {"local", "local function"} -> localStatement(c, st)
    [] st.k = "return" -> returnStatement(c, st)
    [] st.k = "class" -> classDeclaration(c, st)
    [] st.k = "trait" -> traitDeclaration(c, st)
    [] st.k = "if" -> ifStatement(c, st)
    [] st.k = "while" -> whileStatement(c, st)
    [] st.k = "repeat" -> repeatStatement(c, st)
    [] st.k = "for" -> forStatement(c, st)
    [] st.k = "break" -> breakStatement(c)
    [] st.k = "continue" -> continueStatement(c)
    [] st.k = "do" -> endScope(block(beginScope(c), st.body))
    [] OTHER -> expressionStatement(c, st)

(* The depth of the scopes is never negative: reading it evaluates the *)
(* record of one declaration before the next declaration is compiled.  *)
block(c, stmts) ==
  IF stmts = <<>> \/ c.scopeDepth < 0 THEN c
  ELSE block(declaration(c, Head(stmts)), Tail(stmts))

(* compile: initCompiler for the script, the declarations, endCompiler.    *)
(* The result is the script's function, or no function after an error.     *)
compile(program, fold, junk) ==
  LET script(c) == IF c.error # "" THEN <<>> ELSE endCompiler(c, "", 0)
  IN script(block(initCompiler(<<>>, "TYPE_SCRIPT", <<>>, "", fold, junk), program))

(* The string compile finds in vm.strings for chars, or NULL. *)
internedString(s, chars) ==
  IF LiveKeys(s, chars) = {} THEN 0 ELSE CHOOSE a \in LiveKeys(s, chars) : TRUE

(* makeConstant for each constant of a function; fns are the functions      *)
(* compiled so far.  No count is negative: reading them evaluates the state *)
(* of one constant before the next constant is made.                        *)
RECURSIVE loadConstants(_, _, _, _)
loadConstants(s, consts, fns, done) ==
  IF consts = <<>> \/ s.frameCount + Len(done) < 0 THEN [s |-> s, r |-> done]
  ELSE LET c == Head(consts)
           str(m) == loadConstants(m.s, Tail(consts), fns,
                                   Append(done, OBJ_VAL(m.r)))
       IN CASE c.k = "num" ->
                 loadConstants(s, Tail(consts), fns, Append(done, NUMBER_VAL(c.v)))
            [] c.k = "bool" ->
                 loadConstants(s, Tail(consts), fns, Append(done, BOOL_VAL(c.v)))
            [] c.k = "fn" ->
                 loadConstants(s, Tail(consts), fns, Append(done, OBJ_VAL(fns[c.v])))
            [] OTHER -> str(copyString(s, c.v, internedString(s, c.v)))

(* initCompiler .. endCompiler for one function. *)
loadFunction(s, tm, fns) ==
  LET named(m) ==
        allocateObject(m.s, FunctionObj(tm.arity, tm.upvalueCount, m.r, <<>>, tm.code))
      fill(m, f) == [s |-> [m.s EXCEPT !.heap[f].constants = m.r], r |-> f]
      constants(m) == fill(loadConstants(m.s, tm.consts, fns, <<>>), m.r)
  IN constants(named(IF tm.name = "" THEN [s |-> s, r |-> 0]
                     ELSE copyString(s, tm.name, internedString(s, tm.name))))

RECURSIVE loadFunctions(_, _, _)
loadFunctions(s, tmpls, fns) ==
  IF tmpls = <<>> \/ s.frameCount + Len(fns) < 0
  THEN [s |-> s, r |-> IF fns = <<>> THEN 0 ELSE fns[Len(fns)]]
  ELSE LET next(m) == loadFunctions(m.s, Tail(tmpls), Append(fns, m.r))
       IN next(loadFunction(s, Head(tmpls), fns))

(* compiler.c compileWithFilename: the script function, NULL on an error. *)
compileWithFilename(s, source) == loadFunctions(s, Chunks(source), <<>>)

(***************************************************************************)
(* vm.c run(): one iteration of the dispatch loop.  r is "next" when the   *)
(* loop goes on, "OK" or "RUNTIME_ERROR" when run() returns, and "run"     *)
(* when requireNative has pushed the module's frame and called run().      *)
(***************************************************************************)
frameOf(s) == s.frames[s.frameCount]
chunkOf(s) == s.heap[s.heap[frameOf(s).closure].function]
READ_BYTE(s) == [s EXCEPT !.frames[s.frameCount].ip = @ + 1]
READ_CONSTANT(s, k) == chunkOf(s).constants[k + 1]
continue(s) == [s |-> s, r |-> "next"]
fail(s, message) == [s |-> runtimeError(s, message), r |-> "RUNTIME_ERROR"]

upvalueGet(s, u) ==
  IF s.heap[u].location >= 0 THEN slotAt(s, s.heap[u].location)
  ELSE s.heap[u].closed
upvalueSet(s, u, v) ==
  IF s.heap[u].location >= 0 THEN setSlot(s, s.heap[u].location, v)
  ELSE [s EXCEPT !.heap[u].closed = v]

(* The files readFile finds for a module name. *)
ModuleSource(name) ==
  CASE name = "m" -> "function g() end"
    [] name = "bad" -> "boom()"
    [] OTHER -> ""

(* callValue, OBJ_NATIVE: drop the callee and the arguments, push the result. *)
nativeResult(s, argCount, result) ==
  push([s EXCEPT !.stackTop = @ - (argCount + 1)], result)

(* vm.c requireNative up to its call of run(). *)
requireNative(s, argCount) ==
  LET name == slotAt(s, s.stackTop - argCount)
      source == ModuleSource(s.heap[name.v].chars)
      done(x, v) == continue(nativeResult(x, argCount, v))
      enter(x) ==
        IF x.frameCount = FRAMES_MAX THEN done(pop(pop(x)), NIL_VAL)
        ELSE [s |-> [x EXCEPT !.frameCount = @ + 1,
                              !.frames = SubSeq(@, 1, x.frameCount) \o
                                <<[closure |-> peek(x, 0).v, ip |-> 1,
                                   slots |-> x.stackTop - 1]>>],
              r |-> "run"]
      closure(m) == enter(push(pop(m.s), OBJ_VAL(m.r)))
      compiled(m) ==
        IF m.r = 0
        THEN done([pop(m.s) EXCEPT !.loadedModules = tableDelete(@, name.v)],
                  NIL_VAL)
        ELSE closure(newClosure(push(m.s, OBJ_VAL(m.r)), m.r))
      exports(m) ==
        compiled(compileWithFilename(
          [push(m.s, OBJ_VAL(m.r)) EXCEPT
             !.loadedModules = tableSet(@, name.v, OBJ_VAL(m.r))],
          source))
  IN IF argCount # 1 \/ ~IS_STRING(s, name) THEN done(s, NIL_VAL)
     ELSE IF tableHas(s.loadedModules, name.v)
     THEN done([s EXCEPT !.modulesInitialized = TRUE], s.loadedModules[name.v])
     ELSE IF source = ""
     THEN done([s EXCEPT !.modulesInitialized = TRUE], NIL_VAL)
     ELSE exports(allocateObject([s EXCEPT !.modulesInitialized = TRUE], TableObj))

(* vm.c requireNative after run() has returned result, then the rest of    *)
(* callValue.                                                              *)
requireReturn(s, result) ==
  LET exportsVal(x) == nativeResult(pop(x), 1, peek(x, 0))
  IN IF result # "OK" THEN nativeResult(pop(s), 1, NIL_VAL)
     ELSE exportsVal(pop(s))

(***************************************************************************)
(* Tables: object.c newTable, writeValueArray on the array part, tableSet  *)
(* on the hash part, and the cases OP_TABLE_GET, OP_TABLE_SET,             *)
(* OP_TABLE_ADD and OP_TABLE_SET_FIELD of run().  An array that is full    *)
(* and a hash part that is empty grow through reallocate before the value  *)
(* is stored; a store into a table that the collection has freed writes    *)
(* freed memory.                                                           *)
(***************************************************************************)
newTable(s) == allocateObject(s, TableObj)
useAfterFree(s, what) == [s EXCEPT !.ub = IF @ # "" THEN @ ELSE what]
writeValueArray(s, t, value) ==
  LET write(x) ==
        IF x.heap[t].type # "table" THEN useAfterFree(x, "write to a freed table")
        ELSE [x EXCEPT !.heap[t].array = Append(@, value),
                       !.heap[t].capacity =
                          IF @ < Len(x.heap[t].array) + 1 THEN GROW_CAPACITY(@)
                          ELSE @]
  IN IF s.heap[t].type = "table" /\ s.heap[t].capacity < Len(s.heap[t].array) + 1
     THEN write(reallocate(s, 1))
     ELSE write(s)
tableSetIn(s, t, key, value) ==
  LET set(x) ==
        IF x.heap[t].type # "table" THEN useAfterFree(x, "write to a freed table")
        ELSE [x EXCEPT !.heap[t].entries = tableSet(@, key, value)]
  IN IF s.heap[t].type = "table" /\ DOMAIN s.heap[t].entries = {}
     THEN set(reallocate(s, 1))
     ELSE set(s)

(* while (table->array.count < index) writeValueArray(&table->array, NIL_VAL) *)
RECURSIVE growArray(_, _, _)
growArray(s, t, index) ==
  IF s.ub # "" \/ s.heap[t].type # "table" \/ Len(s.heap[t].array) >= index THEN s
  ELSE growArray(writeValueArray(s, t, NIL_VAL), t, index)

tableGetOp(s) ==
  LET key == peek(s, 0)
      tableVal == peek(s, 1)
      table == s.heap[tableVal.v]
      found(v) == continue(push(pop(pop(s)), v))
  IN IF ~IsType(s, tableVal, "table") THEN fail(pop(pop(s)), "Can only index tables.")
     ELSE IF IS_NUMBER(key) /\ intOf(key) >= 1 /\ intOf(key) <= Len(table.array)
     THEN found(table.array[intOf(key)])
     ELSE IF IS_STRING(s, key) /\ tableHas(table.entries, key.v)
     THEN found(table.entries[key.v])
     ELSE found(NIL_VAL)

tableSetOp(s) ==
  LET value == peek(s, 0)
      key == peek(s, 1)
      tableVal == peek(s, 2)
      store(x) ==
        IF x.ub # "" THEN x
        ELSE IF x.heap[tableVal.v].type # "table"
        THEN useAfterFree(x, "write to a freed table")
        ELSE [x EXCEPT !.heap[tableVal.v].array[intOf(key)] = value]
      done(x) == continue(push(x, value))
  IN IF ~IsType(s, tableVal, "table")
     THEN fail(pop(pop(pop(s))), "Can only index tables.")
     ELSE IF IS_NUMBER(key) /\ intOf(key) >= 1
     THEN done(store(growArray(pop(pop(pop(s))), tableVal.v, intOf(key))))
     ELSE IF IS_STRING(s, key)
     THEN done(tableSetIn(pop(pop(pop(s))), tableVal.v, key.v, value))
     ELSE fail(pop(pop(pop(s))), "Table key must be a string or positive integer.")

tableAdd(s) ==
  LET value == peek(s, 0)
      tableVal == peek(s, 1)
  IN IF ~IsType(s, tableVal, "table") THEN fail(pop(s), "Expected table.")
     ELSE continue(writeValueArray(pop(s), tableVal.v, value))

tableSetField(s, name) ==
  LET value == peek(s, 0)
      tableVal == peek(s, 1)
  IN IF ~IsType(s, tableVal, "table") THEN fail(pop(s), "Expected table.")
     ELSE continue(tableSetIn(pop(s), tableVal.v, name, value))

(***************************************************************************)
(* vm.c nextNative.  The hash part is walked by slot: object.c hashString  *)
(* (FNV-1a) gives the slot of a key; the model computes the low byte of    *)
(* the hash, for the names of one character it uses, and a table of        *)
(* capacity 8.  The pair is returned in a new table.                       *)
(***************************************************************************)
charCode(chars) == CASE chars = "a" -> 97 [] chars = "b" -> 98 [] OTHER -> 0
RECURSIVE xorBits(_, _, _)
xorBits(x, y, n) ==
  IF n = 0 THEN 0 ELSE ((x + y) % 2) + 2 * xorBits(x \div 2, y \div 2, n - 1)
(* The low bytes of the offset basis 2166136261 and of the prime 16777619. *)
FNV_OFFSET == 197
FNV_PRIME == 147
hashString(chars) == (xorBits(FNV_OFFSET, charCode(chars), 8) * FNV_PRIME) % 256
slotOf(s, key) ==
  (IF s.heap[key].type = "string" THEN hashString(s.heap[key].chars) ELSE 0) % 8
RECURSIVE bySlot(_, _)
bySlot(s, keys) ==
  IF keys = {} THEN <<>>
  ELSE LET first == CHOOSE k \in keys :
                      \A j \in keys : <<slotOf(s, k), k>> = <<slotOf(s, j), j>>
                                        \/ slotOf(s, k) < slotOf(s, j)
                                        \/ (slotOf(s, k) = slotOf(s, j) /\ k < j)
       IN <<first>> \o bySlot(s, keys \ {first})
nextPair(s, key, value) ==
  LET second(x, result) == [s |-> writeValueArray(x, result, value), r |-> OBJ_VAL(result)]
      first(m) == second(writeValueArray(m.s, m.r, key), m.r)
  IN first(newTable(s))
nextNative(s, argCount) ==
  LET arg(i) == slotAt(s, s.stackTop - argCount + i)
      table == s.heap[arg(0).v]
      key == IF argCount > 1 THEN arg(1) ELSE NIL_VAL
      slots == bySlot(s, DOMAIN table.entries)
      entry(i) == nextPair(s, OBJ_VAL(slots[i]), table.entries[slots[i]])
      found == {i \in 1..Len(slots) : IS_STRING(s, key) /\ slots[i] = key.v}
  IN IF argCount < 1 \/ ~IsType(s, arg(0), "table") THEN [s |-> s, r |-> NIL_VAL]
     ELSE IF key.t = "nil"
     THEN IF Len(table.array) > 0 THEN nextPair(s, NUMBER_VAL(1), table.array[1])
          ELSE IF Len(slots) > 0 THEN entry(1)
          ELSE [s |-> s, r |-> NIL_VAL]
     ELSE IF IS_NUMBER(key) /\ intOf(key) >= 1 /\ intOf(key) < Len(table.array)
     THEN nextPair(s, NUMBER_VAL(intOf(key) + 1), table.array[intOf(key) + 1])
     ELSE IF found # {} /\ Min(found) < Len(slots) THEN entry(Min(found) + 1)
     ELSE [s |-> s, r |-> NIL_VAL]

(* vm.c callValue. *)
callValue(s, callee, argCount) ==
  LET called(m) == [s |-> m.s, r |-> IF m.r THEN "next" ELSE "RUNTIME_ERROR"]
      returned(m) == continue(nativeResult(m.s, argCount, m.r))
  IN CASE IsType(s, callee, "closure") -> called(call(s, callee.v, argCount))
       [] IsType(s, callee, "native") ->
            IF s.heap[callee.v].function = "require"
            THEN requireNative(s, argCount)
            ELSE IF s.heap[callee.v].function = "next"
            THEN returned(nextNative(s, argCount))
            ELSE continue(nativeResult(s, argCount, NIL_VAL))
       [] IsType(s, callee, "bound") ->
            called(call(setSlot(s, s.stackTop - argCount - 1,
                                s.heap[callee.v].receiver),
                        s.heap[callee.v].method, argCount))
       [] OTHER -> fail(s, "Can only call functions and classes.")

(* Classes: vm.c invokeFromClass, invoke, defineMethod and the cases      *)
(* OP_SUPER_INVOKE, OP_INHERIT and OP_NEW of run(); object.c newInstance.  *)
newInstance(s, klass) == allocateObject(s, InstanceObj(klass))
invokeFromClass(s, klass, name, argCount) ==
  LET called(m) == [s |-> m.s, r |-> IF m.r THEN "next" ELSE "RUNTIME_ERROR"]
  IN IF ~tableHas(s.heap[klass].methods, name) THEN fail(s, "Undefined method.")
     ELSE called(call(s, s.heap[klass].methods[name].v, argCount))
(* invoke without the replacement of the receiver slot by the field. *)
invokeKeepsReceiver(s, name, argCount) ==
  LET receiver == peek(s, argCount)
      fields == s.heap[receiver.v].fields
  IN IF ~IsType(s, receiver, "instance") THEN fail(s, "Only instances have methods.")
     ELSE IF tableHas(fields, name) THEN callValue(s, fields[name], argCount)
     ELSE invokeFromClass(s, s.heap[receiver.v].klass, name, argCount)
invoke(s, name, argCount) ==
  LET receiver == peek(s, argCount)
      fields == s.heap[receiver.v].fields
  IN IF ~IsType(s, receiver, "instance") THEN fail(s, "Only instances have methods.")
     ELSE IF tableHas(fields, name)
     THEN callValue(setSlot(s, s.stackTop - argCount - 1, fields[name]),
                    fields[name], argCount)
     ELSE invokeFromClass(s, s.heap[receiver.v].klass, name, argCount)
(* object.c newBoundMethod, vm.c bindMethod and the cases OP_GET_PROPERTY  *)
(* and OP_SET_PROPERTY of run().                                           *)
newBoundMethod(s, receiver, closure) ==
  allocateObject(s, BoundMethodObj(receiver, closure))
bindMethod(s, klass, name) ==
  LET bound(m) == continue(push(pop(m.s), OBJ_VAL(m.r)))
  IN IF ~tableHas(s.heap[klass].methods, name) THEN fail(s, "Undefined property.")
     ELSE bound(newBoundMethod(s, peek(s, 0), s.heap[klass].methods[name].v))
getProperty(s, name) ==
  LET instance == peek(s, 0)
      fields == s.heap[instance.v].fields
  IN IF ~IsType(s, instance, "instance") THEN fail(s, "Only instances have properties.")
     ELSE IF tableHas(fields, name) THEN continue(push(pop(s), fields[name]))
     ELSE bindMethod(s, s.heap[instance.v].klass, name)
setProperty(s, name) ==
  LET instance == peek(s, 1)
      stored == [s EXCEPT !.heap[instance.v].fields = tableSet(@, name, peek(s, 0))]
  IN IF ~IsType(s, instance, "instance") THEN fail(s, "Only instances have fields.")
     ELSE continue(push(pop(pop(stored)), peek(s, 0)))
(* OP_SUPER_INVOKE dispatching on the class of the receiver. *)
superInvokeOfReceiver(s, name, argCount) ==
  invokeFromClass(pop(s), s.heap[s.heap[peek(s, argCount + 1).v].klass].superclass,
                  name, argCount)
superInvoke(s, name, argCount) ==
  invokeFromClass(pop(s), peek(s, 0).v, name, argCount)
inherit(s) ==
  LET superclass == peek(s, 1)
      subclass == peek(s, 0).v
  IN IF ~IsType(s, superclass, "class") THEN fail(s, "Superclass must be a class.")
     ELSE continue(pop([s EXCEPT
            !.heap[subclass].methods =
               tableAddAll(s.heap[superclass.v].methods, @),
            !.heap[subclass].superclass = superclass.v]))
defineMethod(s, name) ==
  LET closure == peek(s, 0)
      target == peek(s, 1)
  IN pop(IF IsType(s, target, "class") \/ IsType(s, target, "trait")
         THEN [s EXCEPT !.heap[target.v].methods = tableSet(@, name, closure)]
         ELSE s)
(* OP_TRAIT and OP_IMPLEMENT: the methods of the trait are copied into the *)
(* class.  implementKeepsClass keeps the methods the class already has.    *)
newTrait(s, name) == allocateObject(s, TraitObj(name))
implementKeepsClass(s) ==
  LET classVal == peek(s, 0)
      traitVal == peek(s, 1)
  IN IF ~IsType(s, traitVal, "trait") THEN fail(pop(pop(s)), "Can only implement traits.")
     ELSE IF ~IsType(s, classVal, "class")
     THEN fail(pop(pop(s)), "Only classes can implement traits.")
     ELSE continue([pop(pop(s)) EXCEPT
            !.heap[classVal.v].methods =
               tableAddAll(@, s.heap[traitVal.v].methods)])
implement(s) ==
  LET classVal == peek(s, 0)
      traitVal == peek(s, 1)
  IN IF ~IsType(s, traitVal, "trait") THEN fail(pop(pop(s)), "Can only implement traits.")
     ELSE IF ~IsType(s, classVal, "class")
     THEN fail(pop(pop(s)), "Only classes can implement traits.")
     ELSE continue([pop(pop(s)) EXCEPT
            !.heap[classVal.v].methods =
               tableAddAll(s.heap[traitVal.v].methods, @)])
(* OP_NEW without init: the instance stays in the slot of the class. *)
newWithoutInit(s, argCount) ==
  IF argCount # 0 THEN fail(s, "Expected 0 arguments.") ELSE continue(s)
new(s, argCount) ==
  LET klass == peek(s, argCount)
      called(m) == [s |-> m.s, r |-> IF m.r THEN "next" ELSE "RUNTIME_ERROR"]
      init(x) ==
        IF tableHas(x.heap[klass.v].methods, x.initString)
        THEN called(call(x, x.heap[klass.v].methods[x.initString].v, argCount))
        ELSE newWithoutInit(x, argCount)
      instance(m) == init(setSlot(m.s, m.s.stackTop - argCount - 1, OBJ_VAL(m.r)))
  IN IF ~IsType(s, klass, "class") THEN fail(s, "Can only instantiate classes.")
     ELSE instance(newInstance(s, klass.v))

(* OP_CLOSURE: fill the upvalues of the closure on top of the stack. *)
RECURSIVE captureAll(_, _, _, _)
captureAll(s, closure, enclosing, i) ==
  LET pairs == chunkOf(s).code[frameOf(s).ip - 1].b
      set(m) == captureAll([m.s EXCEPT !.heap[closure].upvalues[i] = m.r],
                           closure, enclosing, i + 1)
  IN IF i > Len(pairs) THEN s
     ELSE IF pairs[i][1] = 1
     THEN set(captureUpvalue(s, frameOf(s).slots + pairs[i][2]))
     ELSE set([s |-> s, r |-> s.heap[enclosing].upvalues[pairs[i][2] + 1]])

(* OP_RETURN of run(). *)
opReturn(s) ==
  LET slots == frameOf(s).slots
      result == peek(s, 0)
      leave(x) ==
        IF x.frameCount = 1
        THEN [s |-> pop([x EXCEPT !.frameCount = 0, !.frames = <<>>]),
              r |-> "OK"]
        ELSE continue(push([x EXCEPT !.frameCount = @ - 1,
                                     !.frames = SubSeq(@, 1, x.frameCount - 1),
                                     !.stackTop = slots],
                           result))
  IN leave(closeUpvalues(pop(s), slots))

(* vm.c isFalsey, and the BINARY_OP macro of run() for the operators the   *)
(* model runs: r is the value pushed.                                      *)
isFalsey(v) == v.t = "nil" \/ (v.t = "bool" /\ v.v = 0)
BINARY_OP(s, op) ==
  LET a == peek(s, 1).v
      b == peek(s, 0).v
  IN IF ~IS_NUMBER(peek(s, 0)) \/ ~IS_NUMBER(peek(s, 1))
     THEN fail(s, "Operands must be numbers.")
     ELSE continue(push(pop(pop(s)),
            CASE op = "OP_GREATER" -> BOOL_VAL(a > b)
              [] op = "OP_LESS" -> BOOL_VAL(a < b)
              [] op = "OP_SUBTRACT" -> NUMBER_VAL(a - b)
              [] OTHER -> NUMBER_VAL(a + b)))
jumpTo(s, target) == [s EXCEPT !.frames[s.frameCount].ip = target]

(* OP_SET_GLOBAL: tableSet reports a new key, which is then deleted. *)
setGlobalKeepsName(s, name) ==
  IF ~tableHas(s.globals, name)
  THEN fail([s EXCEPT !.globals = tableSet(@, name, peek(s, 0))], "Undefined variable.")
  ELSE continue([s EXCEPT !.globals = tableSet(@, name, peek(s, 0))])
setGlobal(s, name) ==
  IF ~tableHas(s.globals, name)
  THEN fail([s EXCEPT !.globals = tableDelete(tableSet(@, name, peek(s, 0)), name)],
            "Undefined variable.")
  ELSE continue([s EXCEPT !.globals = tableSet(@, name, peek(s, 0))])

(* The switch of run(); s has the instruction pointer already advanced. *)
runInstruction(s, i) ==
  LET name == READ_CONSTANT(s, i.a).v
      upvalue == s.heap[frameOf(s).closure].upvalues[i.a + 1]
      pushResult(m) == continue(push(m.s, OBJ_VAL(m.r)))
      closure(m) ==
        continue(captureAll(push(m.s, OBJ_VAL(m.r)), m.r, frameOf(s).closure, 1))
  IN CASE i.op = "OP_CONSTANT" -> continue(push(s, READ_CONSTANT(s, i.a)))
       [] i.op = "OP_NIL" -> continue(push(s, NIL_VAL))
       [] i.op = "OP_POP" -> continue(pop(s))
       [] i.op = "OP_GET_LOCAL" ->
            continue(push(s, slotAt(s, frameOf(s).slots + i.a)))
       [] i.op = "OP_SET_LOCAL" ->
            continue(setSlot(s, frameOf(s).slots + i.a, peek(s, 0)))
       [] i.op = "OP_GET_GLOBAL" ->
            IF tableHas(s.globals, name) THEN continue(push(s, s.globals[name]))
            ELSE fail(s, "Undefined variable.")
       [] i.op = "OP_DEFINE_GLOBAL" ->
            continue(pop([s EXCEPT !.globals = tableSet(@, name, peek(s, 0))]))
       [] i.op = "OP_SET_GLOBAL" -> setGlobal(s, name)
       [] i.op = "OP_GET_UPVALUE" -> continue(push(s, upvalueGet(s, upvalue)))
       [] i.op = "OP_SET_UPVALUE" -> continue(upvalueSet(s, upvalue, peek(s, 0)))
       [] i.op = "OP_CLOSE_UPVALUE" ->
            continue(pop(closeUpvalues(s, s.stackTop - 1)))
       [] i.op = "OP_ADD" ->
            IF ~IS_NUMBER(peek(s, 0)) \/ ~IS_NUMBER(peek(s, 1))
            THEN fail(s, "Operands must be numbers.")
            ELSE continue(push(pop(pop(s)),
                               NUMBER_VAL(peek(s, 1).v + peek(s, 0).v)))
       [] i.op = "OP_CALL" -> callValue(s, peek(s, i.a), i.a)
       [] i.op = "OP_CLOSURE" -> closure(newClosure(s, READ_CONSTANT(s, i.a).v))
       [] i.op = "OP_RETURN" -> opReturn(s)
       [] i.op = "OP_CLASS" -> pushResult(newClass(s, name))
       [] i.op = "OP_INHERIT" -> inherit(s)
       [] i.op = "OP_METHOD" -> continue(defineMethod(s, name))
       [] i.op = "OP_INVOKE" -> invoke(s, name, i.b)
       [] i.op = "OP_GET_PROPERTY" -> getProperty(s, name)
       [] i.op = "OP_SET_PROPERTY" -> setProperty(s, name)
       [] i.op = "OP_SUPER_INVOKE" -> superInvoke(s, name, i.b)
       [] i.op = "OP_NEW" -> new(s, i.a)
       [] i.op = "OP_TRAIT" -> pushResult(newTrait(s, name))
       [] i.op = "OP_IMPLEMENT" -> implement(s)
       [] i.op = "OP_TABLE" -> pushResult(newTable(s))
       [] i.op = "OP_TABLE_GET" -> tableGetOp(s)
       [] i.op = "OP_TABLE_SET" -> tableSetOp(s)
       [] i.op = "OP_TABLE_ADD" -> tableAdd(s)
       [] i.op = "OP_TABLE_SET_FIELD" -> tableSetField(s, name)
       [] i.op = "OP_TRUE" -> continue(push(s, BOOL_VAL(TRUE)))
       [] i.op = "OP_FALSE" -> continue(push(s, BOOL_VAL(FALSE)))
       [] i.op = "OP_NOT" -> continue(push(pop(s), BOOL_VAL(isFalsey(peek(s, 0)))))
       [] i.op = "OP_EQUAL" ->
            continue(push(pop(pop(s)), BOOL_VAL(valuesEqual(peek(s, 1), peek(s, 0)))))
       [] i.op \in {"OP_GREATER", "OP_LESS", "OP_SUBTRACT"} -> BINARY_OP(s, i.op)
       [] i.op \in {"OP_JUMP", "OP_LOOP"} -> continue(jumpTo(s, i.a))
       [] i.op = "OP_JUMP_IF_FALSE" ->
            continue(IF isFalsey(peek(s, 0)) THEN jumpTo(s, i.a) ELSE s)
       [] OTHER -> fail(s, "Unknown opcode.")

(***************************************************************************)
(* vm.c callClosure: the entry up to its own dispatch loop (r is "loop"    *)
(* when the loop is entered, "false" when callClosure returns before it),  *)
(* and one iteration of that loop; r is "true" or "false" when callClosure *)
(* returns.                                                                *)
(***************************************************************************)
RECURSIVE pushAll(_, _)
pushAll(s, args) ==
  IF args = <<>> THEN s ELSE pushAll(push(s, Head(args)), Tail(args))

callClosure(s, closure, argCount, args) ==
  LET called(m) ==
        IF m.r THEN [s |-> m.s, r |-> "loop"]
        ELSE [s |-> [m.s EXCEPT !.stackTop = @ - (argCount + 1)], r |-> "false"]
  IN IF argCount # s.heap[s.heap[closure].function].arity
     THEN [s |-> s, r |-> "false"]
     ELSE called(call(pushAll(push(s, OBJ_VAL(closure)), args), closure, argCount))

CC_FAIL(s) == [s |-> s, r |-> "false"]

(* OP_RETURN of callClosure. *)
ccReturn(s, baseFrameCount) ==
  LET slots == frameOf(s).slots
      returnValue == peek(s, 0)
      unwind(x) == [x EXCEPT !.frameCount = @ - 1,
                             !.frames = SubSeq(@, 1, x.frameCount - 1),
                             !.stackTop = slots]
      leave(x) ==
        IF x.frameCount - 1 <= baseFrameCount
        THEN [s |-> unwind(x), r |-> "true"]
        ELSE continue(push(unwind(x), returnValue))
  IN leave(closeUpvalues(pop(s), slots))

(* The switch of callClosure; s has the instruction pointer advanced. *)
ccInstruction(s, i, baseFrameCount) ==
  LET name == READ_CONSTANT(s, i.a).v
      upvalue == s.heap[frameOf(s).closure].upvalues[i.a + 1]
      called(m) == IF m.r = "RUNTIME_ERROR" THEN CC_FAIL(m.s) ELSE m
      closure(m) ==
        continue(captureAll(push(m.s, OBJ_VAL(m.r)), m.r, frameOf(s).closure, 1))
  IN CASE i.op = "OP_RETURN" -> ccReturn(s, baseFrameCount)
       [] i.op = "OP_CONSTANT" -> continue(push(s, READ_CONSTANT(s, i.a)))
       [] i.op = "OP_NIL" -> continue(push(s, NIL_VAL))
       [] i.op = "OP_POP" -> continue(pop(s))
       [] i.op = "OP_GET_LOCAL" ->
            continue(push(s, slotAt(s, frameOf(s).slots + i.a)))
       [] i.op = "OP_SET_LOCAL" ->
            continue(setSlot(s, frameOf(s).slots + i.a, peek(s, 0)))
       [] i.op = "OP_GET_GLOBAL" ->
            IF tableHas(s.globals, name) THEN continue(push(s, s.globals[name]))
            ELSE CC_FAIL(s)
       [] i.op = "OP_ADD" ->
            IF ~IS_NUMBER(peek(s, 0)) \/ ~IS_NUMBER(peek(s, 1)) THEN CC_FAIL(s)
            ELSE continue(push(pop(pop(s)),
                               NUMBER_VAL(peek(s, 1).v + peek(s, 0).v)))
       [] i.op = "OP_CALL" -> called(callValue(s, peek(s, i.a), i.a))
       [] i.op = "OP_GET_UPVALUE" -> continue(push(s, upvalueGet(s, upvalue)))
       [] i.op = "OP_SET_UPVALUE" -> continue(upvalueSet(s, upvalue, peek(s, 0)))
       [] i.op = "OP_CLOSE_UPVALUE" ->
            continue(pop(closeUpvalues(s, s.stackTop - 1)))
       [] i.op = "OP_CLOSURE" -> closure(newClosure(s, READ_CONSTANT(s, i.a).v))
       [] i.op = "OP_SET_GLOBAL" ->
            IF tableHas(s.globals, name)
            THEN continue([s EXCEPT !.globals = tableSet(@, name, peek(s, 0))])
            ELSE CC_FAIL(s)
       [] i.op = "OP_DEFINE_GLOBAL" ->
            continue(pop([s EXCEPT !.globals = tableSet(@, name, peek(s, 0))]))
       [] i.op = "OP_TRUE" -> continue(push(s, BOOL_VAL(TRUE)))
       [] i.op = "OP_FALSE" -> continue(push(s, BOOL_VAL(FALSE)))
       [] i.op = "OP_NOT" -> continue(push(pop(s), BOOL_VAL(isFalsey(peek(s, 0)))))
       [] i.op = "OP_EQUAL" ->
            continue(push(pop(pop(s)), BOOL_VAL(valuesEqual(peek(s, 1), peek(s, 0)))))
       [] i.op \in {"OP_GREATER", "OP_LESS", "OP_SUBTRACT"} ->
            IF ~IS_NUMBER(peek(s, 0)) \/ ~IS_NUMBER(peek(s, 1)) THEN CC_FAIL(s)
            ELSE BINARY_OP(s, i.op)
       [] i.op \in {"OP_JUMP", "OP_LOOP"} -> continue(jumpTo(s, i.a))
       [] i.op = "OP_JUMP_IF_FALSE" ->
            continue(IF isFalsey(peek(s, 0)) THEN jumpTo(s, i.a) ELSE s)
       [] OTHER -> CC_FAIL(s)

(* vm.c interpretWithFilename up to its call of run(); the result of call  *)
(* is ignored.                                                             *)
interpretFunction(m) ==
  LET start(x) == call(push(pop(x.s), OBJ_VAL(x.r)), x.r, 0).s
  IN IF m.r = 0 THEN [s |-> m.s, r |-> "COMPILE_ERROR"]
     ELSE [s |-> start(newClosure(push(m.s, OBJ_VAL(m.r)), m.r)), r |-> "run"]
interpretWithFilename(s, source) == interpretFunction(compileWithFilename(s, source))

(***************************************************************************)
(* Running scripts: interpret() is called on a source, as the REPL of      *)
(* main.c does line after line, and run() executes one instruction per     *)
(* step.  host.depth is the number of run() activations on the C stack     *)
(* (a second one is requireNative's), host.base the value of vm.frameCount *)
(* when each of them started, host.result what the last interpret()        *)
(* returned.  The host of luapp_interop.c calls callClosure on a global    *)
(* function; host.loops names the dispatch loops that are active,          *)
(* host.base holds baseFrameCount for callClosure, host.entry the stack    *)
(* top and frame count when callClosure was entered.                       *)
(***************************************************************************)
MaxInterpret == 3
ScriptObjects == 10
Sources ==
  {"local x = 1", "boom()", "function f() boom() end f()", "require(\"m\")",
   "require(\"bad\")",
   "local x = 1 function inc() x = x + 1 end function get() return x end inc() local a = get()",
   "inc() local b = get()", "function mk() class A end end", "(", StaleUpvalue}

RunInit == vm = initVM /\ host = HostInit

InterpretOf(sources, maxCalls) ==
  \E source \in sources :
    /\ host.depth = 0 /\ vm.ub = "" /\ host.calls < maxCalls
    /\ Allocated(vm) + ScriptObjects <= MaxAddr
    /\ \E m \in {interpretWithFilename([vm EXCEPT !.error = ""], source)} :
         /\ vm' = m.s
         /\ host' = [host EXCEPT
                       !.calls = @ + 1, !.source = source,
                       !.last = [fn |-> "interpret", chars |-> source],
                       !.depth = IF m.r = "run" THEN 1 ELSE 0,
                       !.base = IF m.r = "run" THEN <<m.s.frameCount>> ELSE <<>>,
                       !.loops = IF m.r = "run" THEN <<"run">> ELSE <<>>,
                       !.result = IF m.r = "run" THEN "" ELSE m.r]
Interpret == InterpretOf(Sources, MaxInterpret)

(* The global functions the host calls, with no argument or one. *)
CallNames == {"f", "inc", "get", "mk", "set"}
globalClosure(s, name) ==
  IF internedString(s, name) # 0 /\ tableHas(s.globals, internedString(s, name))
     /\ IsType(s, s.globals[internedString(s, name)], "closure")
  THEN s.globals[internedString(s, name)].v ELSE 0

CallClosure ==
  \E name \in CallNames, argCount \in 0..1 :
    /\ host.depth = 0 /\ vm.ub = "" /\ host.calls < MaxInterpret
    /\ globalClosure(vm, name) # 0
    /\ \E m \in {callClosure([vm EXCEPT !.error = ""], globalClosure(vm, name),
                             argCount, [k \in 1..argCount |-> NIL_VAL])} :
         /\ vm' = m.s
         /\ host' = [host EXCEPT
                       !.calls = @ + 1, !.source = name,
                       !.last = [fn |-> "callClosure", chars |-> name],
                       !.entry = [stackTop |-> vm.stackTop,
                                  frameCount |-> vm.frameCount,
                                  stack |-> [i \in 0..(vm.stackTop - 1) |->
                                              slotAt(vm, i)]],
                       !.depth = IF m.r = "loop" THEN 1 ELSE 0,
                       !.base = IF m.r = "loop" THEN <<vm.frameCount>> ELSE <<>>,
                       !.loops = IF m.r = "loop" THEN <<"callClosure">> ELSE <<>>,
                       !.result = IF m.r = "loop" THEN "" ELSE m.r]

(* A write to vm.stack[-1] lands on vm.frameCount, the field declared just *)
(* before vm.stack: it becomes the low bits of the value written.          *)
overwriteFrameCount(s, bits) ==
  IF s.ub = "write to vm.stack[-1]" THEN [s EXCEPT !.frameCount = bits] ELSE s

(* The values the low 32 bits of an object pointer can have as an int:     *)
(* negative, within the frame array, beyond it.                            *)
PointerBits == {-16, 16, FRAMES_MAX + 16}

(* The dispatch loop that is running, and whether it can fetch. *)
Running(loop) ==
  host.depth > 0 /\ vm.ub = "" /\ host.loops[host.depth] = loop
FrameValid == vm.frameCount \in 1..FRAMES_MAX
Fetched == chunkOf(vm).code[frameOf(vm).ip]
StrayFrame ==
  /\ vm' = [vm EXCEPT !.ub = "frame pointer outside vm.frames"]
  /\ host' = host
EnterRun(s) ==
  /\ vm' = s
  /\ host' = [host EXCEPT !.depth = @ + 1, !.base = Append(@, s.frameCount),
                          !.loops = Append(@, "run")]

(* One iteration of the loop of the innermost run(); when it returns, the  *)
(* caller goes on: interpret() returns its result, requireNative returns   *)
(* to callValue and the OP_CALL case of the loop below.                    *)
RunStep ==
  /\ Running("run")
  /\ IF ~FrameValid THEN StrayFrame
     ELSE \E m \in {runInstruction(READ_BYTE(vm), Fetched)} :
          \E bits \in PointerBits :
            CASE m.r = "next" -> vm' = overwriteFrameCount(m.s, bits) /\ host' = host
              [] m.r = "run" -> EnterRun(m.s)
              [] host.depth = 1 ->
                   /\ vm' = m.s
                   /\ host' = [host EXCEPT !.depth = 0, !.base = <<>>,
                                           !.loops = <<>>, !.result = m.r]
              [] OTHER ->
                   /\ vm' = overwriteFrameCount(requireReturn(m.s, m.r), bits)
                   /\ host' = [host EXCEPT !.depth = @ - 1,
                                           !.base = SubSeq(@, 1, Len(@) - 1),
                                           !.loops = SubSeq(@, 1, Len(@) - 1)]

(* One iteration of the loop of callClosure; when it returns, the host has *)
(* its bool and, on success, the value returned.                           *)
CallClosureStep ==
  /\ Running("callClosure")
  /\ IF ~FrameValid THEN StrayFrame
     ELSE \E m \in {ccInstruction(READ_BYTE(vm), Fetched, host.base[host.depth])} :
          \E bits \in PointerBits :
            CASE m.r = "next" -> vm' = overwriteFrameCount(m.s, bits) /\ host' = host
              [] m.r = "run" -> EnterRun(m.s)
              [] OTHER ->
                   /\ vm' = m.s
                   /\ host' = [host EXCEPT
                                 !.depth = 0, !.base = <<>>, !.loops = <<>>,
                                 !.result = m.r,
                                 !.ret = IF m.r = "true" THEN peek(vm, 0)
                                         ELSE NIL_VAL]

RunNext == Interpret \/ CallClosure \/ RunStep \/ CallClosureStep

RunSpec == RunInit /\ [][RunNext]_vars

(***************************************************************************)
(* Running compiled programs.  A program is the syntax tree the parser     *)
(* walks for its source text; interpret() compiles it with the compiler    *)
(* above and run() executes it one instruction per step.  host.steps       *)
(* counts the instructions executed.                                       *)
(***************************************************************************)
N(v) == [k |-> "num", v |-> v]
V(name) == [k |-> "var", name |-> name]
Lit(k) == [k |-> k]
Group(e) == [k |-> "group", r |-> e]
Bin(l, op, r) == [k |-> "binary", op |-> op, l |-> l, r |-> r]
Logic(l, k, r) == [k |-> k, l |-> l, r |-> r]
Assign(name, e) == [k |-> "expr", e |-> [k |-> "assign", name |-> name, r |-> e]]
Local(name, e) == [k |-> "local", name |-> name, e |-> e]
Arm(cond, body) == [cond |-> cond, body |-> body]
If(arms, else) == [k |-> "if", arms |-> arms, else |-> else]
While(cond, body) == [k |-> "while", cond |-> cond, body |-> body]
Repeat(body, cond) == [k |-> "repeat", cond |-> cond, body |-> body]
For(name, a, b, body) ==
  [k |-> "for", name |-> name, a |-> a, b |-> b, hasStep |-> FALSE, body |-> body]
Do(body) == [k |-> "do", body |-> body]
Call(f, args) == [k |-> "call", l |-> f, args |-> args]
Expr(e) == [k |-> "expr", e |-> e]
Return(e) == [k |-> "return", e |-> e]
ClassImplements(name, super, traits, list) ==
  [k |-> "class", name |-> name, super |-> super, traits |-> traits, methods |-> list]
Class(name, super, list) == ClassImplements(name, super, <<>>, list)
Trait(name, list) == [k |-> "trait", name |-> name, methods |-> list]
Method(name, params, body) == [name |-> name, params |-> params, body |-> body]
Self == [k |-> "self"]
Super(name, args) == [k |-> "super", name |-> name, args |-> args]
New(name, args) == [k |-> "new", name |-> name, args |-> args]
Invoke(obj, name, args) == [k |-> "invoke", l |-> obj, name |-> name, args |-> args]
LocalFunction(name, params, body) ==
  [k |-> "local function", name |-> name, params |-> params, body |-> body]
Break == [k |-> "break"]
Continue == [k |-> "continue"]

(* A method of a global class captures a local of the script; the script *)
(* then fails at run time, or leaves the local's scope by break.         *)
InvokeBase == "class K function m(x) return x end end local o = new K()"
BareReturn == "class K function m() return end end local o = new K() local r = o:m()"
CapturedThenError == "local x = 1 class A function m() return x end end y = 2"
CapturedThenBreak ==
  "local o = nil while true do do local x = 1 class A function m() return x end end o = A break end end"
(* Classes that implement traits. *)
TraitOrder ==
  "trait T1 function b() return 2 end end trait T2 function a() return 3 end function b() return 3 end end class C implements T1, T2 function a() return 4 end end local c = new C() local ra = c:a() local rb = c:b()"
TraitOverParent ==
  "class P function b() return 1 end function d() return 1 end end trait T1 function b() return 2 end end class C extends P implements T1 end local c = new C() local rb = c:b() local rd = c:d()"
(* Programs that assign to a global. *)
GlobalUndefined == "x = 10"
GlobalDefined == "class G end local r = G = 10 local q = G"
(* Programs that instantiate classes. *)
NewWithInit == "class P function init(a) local x = a end end local p = new P(7)"
NewInherited == "class P function init() end end class Q extends P end local q = new Q()"
NewNoInit == "class E end local e = new E()"
NewNoInitArgs == "class E end local e = new E(1)"
NewInitReturns == "class R function init() return end end local r = new R()"
NewInitBranches ==
  "class S function a() end function init() if true then self:a() elseif true then self:a() else self:a() end end end local s = new S()"
NewPrograms ==
  {NewWithInit, NewInherited, NewNoInit, NewNoInitArgs, NewInitReturns, NewInitBranches}
Program(source) ==
  CASE source = "local r = 1 + 2" -> <<Local("r", Bin(N(1), "+", N(2)))>>
    [] source = "local r = (1 or 2) + 3" ->
         <<Local("r", Bin(Group(Logic(N(1), "or", N(2))), "+", N(3)))>>
    [] source = "local r = (false and 2) + 3" ->
         <<Local("r", Bin(Group(Logic(Lit("false"), "and", N(2))), "+", N(3)))>>
    [] source = "local n = 0 for i = 1, 3 do n = n + n + i end" ->
         <<Local("n", N(0)),
           For("i", N(1), N(3),
               <<Assign("n", Bin(Bin(V("n"), "+", V("n")), "+", V("i")))>>)>>
    [] source = "local n = 0 for i = 1, 3 do local x = i n = n + n + x end" ->
         <<Local("n", N(0)),
           For("i", N(1), N(3),
               <<Local("x", V("i")),
                 Assign("n", Bin(Bin(V("n"), "+", V("n")), "+", V("x")))>>)>>
    [] source = "for i = 1, 3 do local x = i end" ->
         <<For("i", N(1), N(3), <<Local("x", V("i"))>>)>>
    [] source = "local i = 0 repeat i = i + 1 until i >= 5" ->
         <<Local("i", N(0)),
           Repeat(<<Assign("i", Bin(V("i"), "+", N(1)))>>, Bin(V("i"), ">=", N(5)))>>
    [] source = "local i = 0 repeat i = i + 1 until true" ->
         <<Local("i", N(0)),
           Repeat(<<Assign("i", Bin(V("i"), "+", N(1)))>>, Lit("true"))>>
    [] source = "local i = 0 while i < 2 do i = i + 1 end" ->
         <<Local("i", N(0)),
           While(Bin(V("i"), "<", N(2)), <<Assign("i", Bin(V("i"), "+", N(1)))>>)>>
    [] source = "local r = 0 if true then r = 1 elseif true then r = r + 2 else r = r + 4 end" ->
         <<Local("r", N(0)),
           If(<<Arm(Lit("true"), <<Assign("r", N(1))>>),
                Arm(Lit("true"), <<Assign("r", Bin(V("r"), "+", N(2)))>>)>>,
              <<Assign("r", Bin(V("r"), "+", N(4)))>>)>>
    [] source = "local r = 0 if false then r = 1 elseif true then r = r + 2 else r = r + 4 end" ->
         <<Local("r", N(0)),
           If(<<Arm(Lit("false"), <<Assign("r", N(1))>>),
                Arm(Lit("true"), <<Assign("r", Bin(V("r"), "+", N(2)))>>)>>,
              <<Assign("r", Bin(V("r"), "+", N(4)))>>)>>
    [] source = "local r = 0 if false then r = 1 elseif false then r = r + 2 else r = r + 4 end" ->
         <<Local("r", N(0)),
           If(<<Arm(Lit("false"), <<Assign("r", N(1))>>),
                Arm(Lit("false"), <<Assign("r", Bin(V("r"), "+", N(2)))>>)>>,
              <<Assign("r", Bin(V("r"), "+", N(4)))>>)>>
    [] source = "local r = 0 if false then r = 1 else r = r + 4 end" ->
         <<Local("r", N(0)),
           If(<<Arm(Lit("false"), <<Assign("r", N(1))>>)>>,
              <<Assign("r", Bin(V("r"), "+", N(4)))>>)>>
    [] source = "if false then local x = 1 else local x = 2 end" ->
         <<If(<<Arm(Lit("false"), <<Local("x", N(1))>>)>>, <<Local("x", N(2))>>)>>
    [] source = "if false then local x = 1 end local y = 2 local r = y" ->
         <<If(<<Arm(Lit("false"), <<Local("x", N(1))>>)>>, <<>>),
           Local("y", N(2)), Local("r", V("y"))>>
    [] source = "while true do local x = 1 break end" ->
         <<While(Lit("true"), <<Local("x", N(1)), Break>>)>>
    [] source = "while true do do local x = 1 break end end" ->
         <<While(Lit("true"), <<Do(<<Local("x", N(1)), Break>>)>>)>>
    [] source = "local n = 0 while n < 2 do n = n + 1 local x = n continue end" ->
         <<Local("n", N(0)),
           While(Bin(V("n"), "<", N(2)),
                 <<Assign("n", Bin(V("n"), "+", N(1))), Local("x", V("n")),
                   Continue>>)>>
    [] source = "local n = 0 while n < 2 do n = n + 1 continue end" ->
         <<Local("n", N(0)),
           While(Bin(V("n"), "<", N(2)),
                 <<Assign("n", Bin(V("n"), "+", N(1))), Continue>>)>>
    [] source = "local n = 0 for i = 1, 3 do if i == 2 then continue end n = n + i end" ->
         <<Local("n", N(0)),
           For("i", N(1), N(3),
               <<If(<<Arm(Bin(V("i"), "==", N(2)), <<Continue>>)>>, <<>>),
                 Assign("n", Bin(V("n"), "+", V("i")))>>)>>
    [] source = "local function f() end local r = f" ->
         <<LocalFunction("f", <<>>, <<>>), Local("r", V("f"))>>
    [] source = "do local function f() end local r = f end" ->
         <<Do(<<LocalFunction("f", <<>>, <<>>), Local("r", V("f"))>>)>>
    [] source = "local function f() local g = f end f()" ->
         <<LocalFunction("f", <<>>, <<Local("g", V("f"))>>),
           Expr(Call(V("f"), <<>>))>>
    [] source = "do local function f() local g = f end f() end" ->
         <<Do(<<LocalFunction("f", <<>>, <<Local("g", V("f"))>>),
                Expr(Call(V("f"), <<>>))>>)>>
    [] source = "class A function foo() return 1 end end class B extends A function foo() return super.foo() + 2 end end class C extends B function foo() return super.foo() + 4 end end local c = new C() local r = c:foo() local b = new B() local q = b:foo()" ->
         <<Class("A", <<>>, <<Method("foo", <<>>, <<Return(<<N(1)>>)>>)>>),
           Class("B", <<"A">>,
                 <<Method("foo", <<>>,
                          <<Return(<<Bin(Super("foo", <<>>), "+", N(2))>>)>>)>>),
           Class("C", <<"B">>,
                 <<Method("foo", <<>>,
                          <<Return(<<Bin(Super("foo", <<>>), "+", N(4))>>)>>)>>),
           Local("c", New("C", <<>>)), Local("r", Invoke(V("c"), "foo", <<>>)),
           Local("b", New("B", <<>>)), Local("q", Invoke(V("b"), "foo", <<>>))>>
    [] source = GlobalUndefined -> <<Assign("x", N(10))>>
    [] source = GlobalDefined ->
         <<Class("G", <<>>, <<>>),
           Local("r", [k |-> "assign", name |-> "G", r |-> N(10)]),
           Local("q", V("G"))>>
    [] source = NewWithInit ->
         <<Class("P", <<>>, <<Method("init", <<"a">>, <<Local("x", V("a"))>>)>>),
           Local("p", New("P", <<N(7)>>))>>
    [] source = NewInherited ->
         <<Class("P", <<>>, <<Method("init", <<>>, <<>>)>>),
           Class("Q", <<"P">>, <<>>), Local("q", New("Q", <<>>))>>
    [] source = NewNoInit -> <<Class("E", <<>>, <<>>), Local("e", New("E", <<>>))>>
    [] source = NewNoInitArgs ->
         <<Class("E", <<>>, <<>>), Local("e", New("E", <<N(1)>>))>>
    [] source = NewInitReturns ->
         <<Class("R", <<>>, <<Method("init", <<>>, <<Return(<<>>)>>)>>),
           Local("r", New("R", <<>>))>>
    [] source = NewInitBranches ->
         <<Class("S", <<>>,
                 <<Method("a", <<>>, <<>>),
                   Method("init", <<>>,
                          <<If(<<Arm(Lit("true"), <<Expr(Invoke(Self, "a", <<>>))>>),
                                 Arm(Lit("true"), <<Expr(Invoke(Self, "a", <<>>))>>)>>,
                               <<Expr(Invoke(Self, "a", <<>>))>>)>>)>>),
           Local("s", New("S", <<>>))>>
    [] source = TraitOrder ->
         <<Trait("T1", <<Method("b", <<>>, <<Return(<<N(2)>>)>>)>>),
           Trait("T2", <<Method("a", <<>>, <<Return(<<N(3)>>)>>),
                         Method("b", <<>>, <<Return(<<N(3)>>)>>)>>),
           ClassImplements("C", <<>>, <<"T1", "T2">>,
                           <<Method("a", <<>>, <<Return(<<N(4)>>)>>)>>),
           Local("c", New("C", <<>>)), Local("ra", Invoke(V("c"), "a", <<>>)),
           Local("rb", Invoke(V("c"), "b", <<>>))>>
    [] source = TraitOverParent ->
         <<Class("P", <<>>, <<Method("b", <<>>, <<Return(<<N(1)>>)>>),
                              Method("d", <<>>, <<Return(<<N(1)>>)>>)>>),
           Trait("T1", <<Method("b", <<>>, <<Return(<<N(2)>>)>>)>>),
           ClassImplements("C", <<"P">>, <<"T1">>, <<>>),
           Local("c", New("C", <<>>)), Local("rb", Invoke(V("c"), "b", <<>>)),
           Local("rd", Invoke(V("c"), "d", <<>>))>>
    [] source = InvokeBase ->
         <<Class("K", <<>>, <<Method("m", <<"x">>, <<Return(<<V("x")>>)>>)>>),
           Local("o", New("K", <<>>))>>
    [] source = BareReturn ->
         <<Class("K", <<>>, <<Method("m", <<>>, <<Return(<<>>)>>)>>),
           Local("o", New("K", <<>>)), Local("r", Invoke(V("o"), "m", <<>>))>>
    [] source = CapturedThenError ->
         <<Local("x", N(1)),
           Class("A", <<>>, <<Method("m", <<>>, <<Return(<<V("x")>>)>>)>>),
           Assign("y", N(2))>>
    [] source = CapturedThenBreak ->
         <<Local("o", Lit("nil")),
           While(Lit("true"),
                 <<Do(<<Local("x", N(1)),
                        Class("A", <<>>, <<Method("m", <<>>, <<Return(<<V("x")>>)>>)>>),
                        Assign("o", V("A")), Break>>)>>)>>
    [] OTHER -> <<Break>>
Programs ==
  {"local r = 1 + 2", "local r = (1 or 2) + 3", "local r = (false and 2) + 3",
   "local n = 0 for i = 1, 3 do n = n + n + i end",
   "local n = 0 for i = 1, 3 do local x = i n = n + n + x end",
   "for i = 1, 3 do local x = i end",
   "local i = 0 repeat i = i + 1 until i >= 5",
   "local i = 0 repeat i = i + 1 until true",
   "local i = 0 while i < 2 do i = i + 1 end",
   "local r = 0 if true then r = 1 elseif true then r = r + 2 else r = r + 4 end",
   "local r = 0 if false then r = 1 elseif true then r = r + 2 else r = r + 4 end",
   "local r = 0 if false then r = 1 elseif false then r = r + 2 else r = r + 4 end",
   "local r = 0 if false then r = 1 else r = r + 4 end",
   "if false then local x = 1 else local x = 2 end",
   "if false then local x = 1 end local y = 2 local r = y",
   "while true do local x = 1 break end",
   "while true do do local x = 1 break end end",
   "local n = 0 while n < 2 do n = n + 1 local x = n continue end",
   "local n = 0 while n < 2 do n = n + 1 continue end",
   "local n = 0 for i = 1, 3 do if i == 2 then continue end n = n + i end",
   "local function f() end local r = f",
   "do local function f() end local r = f end",
   "local function f() local g = f end f()",
   "do local function f() local g = f end f() end",
   "class A function foo() return 1 end end class B extends A function foo() return super.foo() + 2 end end class C extends B function foo() return super.foo() + 4 end end local c = new C() local r = c:foo() local b = new B() local q = b:foo()",
   "break"} \cup NewPrograms \cup {GlobalUndefined, GlobalDefined}
  \cup {CapturedThenError, CapturedThenBreak} \cup {TraitOrder, TraitOverParent, BareReturn}

(* What the uninitialized continueTarget of forStatement's Loop can hold:  *)
(* a position too far before the chunk for emitLoop (below 0), a position  *)
(* outside the chunk (0), the position of an instruction.                  *)
MaxJunk == 2
Junk == -1..MaxJunk
MaxSteps == 80
MaxProgStack == 12

interpretProgram(s, source, junk) ==
  interpretFunction(loadFunctions(s, compile(Program(source), TRUE, junk), <<>>))

InterpretProgram ==
  \E source \in Programs, junk \in Junk :
    /\ host.depth = 0 /\ vm.ub = "" /\ host.calls = 0
    /\ \E m \in {interpretProgram([vm EXCEPT !.error = ""], source, junk)} :
         /\ vm' = m.s
         /\ host' = [host EXCEPT
                       !.calls = @ + 1, !.source = source,
                       !.last = [fn |-> "interpret", chars |-> source],
                       !.depth = IF m.r = "run" THEN 1 ELSE 0,
                       !.base = IF m.r = "run" THEN <<m.s.frameCount>> ELSE <<>>,
                       !.loops = IF m.r = "run" THEN <<"run">> ELSE <<>>,
                       !.result = IF m.r = "run" THEN "" ELSE m.r]

(* One iteration of run()'s loop; an ip that a jump has taken outside the  *)
(* chunk's code makes the fetch read other memory.                         *)
IpValid == frameOf(vm).ip \in 1..Len(chunkOf(vm).code)
ProgStep ==
  /\ Running("run") /\ host.steps < MaxSteps /\ vm.stackTop < MaxProgStack
  /\ IF ~IpValid
     THEN vm' = [vm EXCEPT !.ub = "fetch outside the chunk"] /\ host' = host
     ELSE \E m \in {runInstruction(READ_BYTE(vm), Fetched)} :
            /\ vm' = m.s
            /\ host' = IF m.r = "next" THEN [host EXCEPT !.steps = @ + 1]
                       ELSE [host EXCEPT !.depth = 0, !.base = <<>>,
                                         !.loops = <<>>, !.result = m.r]

ProgNext == InterpretProgram \/ ProgStep

ProgSpec == RunInit /\ [][ProgNext]_vars

(***************************************************************************)
(* Table operations on one table: the statement t[key] = value             *)
(* (OP_TABLE_SET, OP_POP) and the expression t[key] (OP_TABLE_GET) with    *)
(* the operands pushed as the compiled code pushes them.  host.ret is the  *)
(* table, host.last the operation, the table before it, what run() did     *)
(* (r) and the value the instruction left on top of the stack (top).       *)
(***************************************************************************)
MaxIndex == 3
TableValues == {NUMBER_VAL(7), NUMBER_VAL(8)}
TableKeys(s, table) ==
  {NUMBER_VAL(n) : n \in -1..MaxIndex}
    \cup {FRACTION_VAL(1), NIL_VAL, BOOL_VAL(TRUE), OBJ_VAL(table)}
    \cup {OBJ_VAL(internedString(s, chars)) : chars \in Chars}

MaxNextCalls == 6
tableVM ==
  newTable(copyString(copyString(defineNative(initVM, "next", "next"), "a", 0).s,
                      "b", 0).s)
TableInit ==
  \E m \in {tableVM} :
    /\ vm = m.s
    /\ host = [HostInit EXCEPT !.ret = OBJ_VAL(m.r), !.last = [fn |-> "newTable"]]
(* The traversal: next(t, nil), then next(t, key) with the key returned. *)
nextKey(h) ==
  IF h.last.fn = "next" /\ ~h.last.ended
  THEN h.last.visited[Len(h.last.visited)][1] ELSE NIL_VAL

tableOperation(fn, key, value, m) ==
  [fn |-> fn, key |-> key, value |-> value, before |-> vm.heap[host.ret.v],
   r |-> m.r, top |-> peek(m.s, 0)]
TableSet ==
  /\ host.calls = 0
  /\ \E key \in TableKeys(vm, host.ret.v), value \in TableValues :
    \E m \in {runInstruction(push(push(push([vm EXCEPT !.error = ""], host.ret),
                                        key), value),
                             I0("OP_TABLE_SET"))} :
      /\ vm' = IF m.r = "next" THEN pop(m.s) ELSE m.s
      /\ host' = [host EXCEPT !.last = tableOperation("TABLE_SET", key, value, m)]
TableGet ==
  /\ host.calls = 0
  /\ \E key \in TableKeys(vm, host.ret.v) :
    \E m \in {runInstruction(push(push([vm EXCEPT !.error = ""], host.ret), key),
                             I0("OP_TABLE_GET"))} :
      /\ vm' = IF m.r = "next" THEN pop(m.s) ELSE m.s
      /\ host' = [host EXCEPT !.last = tableOperation("TABLE_GET", key, NIL_VAL, m)]

CallNext ==
  /\ host.calls < MaxNextCalls
  /\ \E m \in {callValue(push(push(push([vm EXCEPT !.error = ""],
                                        vm.globals[internedString(vm, "next")]),
                                   host.ret),
                              nextKey(host)),
                         vm.globals[internedString(vm, "next")], 2)} :
       /\ vm' = pop(m.s)
       /\ host' = [host EXCEPT
            !.calls = @ + 1,
            !.last = [fn |-> "next", key |-> nextKey(host), r |-> peek(m.s, 0),
                      ended |-> ~IsType(m.s, peek(m.s, 0), "table"),
                      visited |->
                        (IF host.last.fn = "next" /\ ~host.last.ended
                         THEN host.last.visited ELSE <<>>) \o
                        (IF IsType(m.s, peek(m.s, 0), "table")
                         THEN <<m.s.heap[peek(m.s, 0).v].array>> ELSE <<>>)]]

TableNext == TableSet \/ TableGet \/ CallNext

TableSpec == TableInit /\ [][TableNext]_vars

(***************************************************************************)
(* Properties of the dispatch loops.                                       *)
(***************************************************************************)
(* The upvalues on the list that starts at vm.openUpvalues. *)
OpenUpvalues(s) == Range(openUpvalueList(s))
IsClosure(s, c) == IsType(s, OBJ_VAL(c), "closure")

(* What one step does to upvalues: the list holds at most one upvalue per  *)
(* stack slot; a closure made by OP_CLOSURE holds, for each local it        *)
(* captures, the listed upvalue of that local's slot; a closure keeps the   *)
(* upvalue objects it was made with; an upvalue that is closed takes the    *)
(* value its slot had.                                                      *)
SharedUpvalueStep ==
  /\ \A u1, u2 \in OpenUpvalues(vm') :
       vm'.heap[u1].location = vm'.heap[u2].location => u1 = u2
  /\ (host.depth > 0 /\ vm.ub = "" /\ FrameValid /\ Fetched.op = "OP_CLOSURE") =>
       \A c \in Addr : (~IsLive(vm, c) /\ IsClosure(vm', c)) =>
         \A k \in 1..Len(Fetched.b) : Fetched.b[k][1] = 1 =>
           /\ vm'.heap[c].upvalues[k] \in OpenUpvalues(vm')
           /\ vm'.heap[vm'.heap[c].upvalues[k]].location =
                frameOf(vm).slots + Fetched.b[k][2]
  /\ \A c \in Addr : (IsClosure(vm, c) /\ IsClosure(vm', c)) =>
       vm'.heap[c].upvalues = vm.heap[c].upvalues
  /\ \A u \in Addr :
       (IsType(vm, OBJ_VAL(u), "upvalue") /\ vm.heap[u].location >= 0
        /\ vm'.heap[u].location = -1) =>
         vm'.heap[u].closed = slotAt(vm, vm.heap[u].location)

(* C2: two closures made over the same local of a running function hold    *)
(* one upvalue object, so a write through one is read through the other;   *)
(* the object stays the same and keeps the variable's value when the       *)
(* enclosing frame returns and the upvalue is closed.                      *)
C2_SharedUpvalue == [][SharedUpvalueStep]_vars

(* Two closures share a closed upvalue that holds 3: the variable was 1,   *)
(* incremented through one closure while open and again after the close.   *)
C2_SharedAfterClose ==
  \E c1, c2 \in Addr :
    /\ c1 # c2 /\ IsClosure(vm, c1) /\ IsClosure(vm, c2)
    /\ Len(vm.heap[c1].upvalues) = 1 /\ Len(vm.heap[c2].upvalues) = 1
    /\ vm.heap[c1].upvalues[1] = vm.heap[c2].upvalues[1]
    /\ vm.heap[vm.heap[c1].upvalues[1]].location = -1
    /\ vm.heap[vm.heap[c1].upvalues[1]].closed = NUMBER_VAL(3)

(* C5: once a runtime error has been raised under interpret, interpret has *)
(* returned INTERPRET_RUNTIME_ERROR with the stack empty, no frame and no  *)
(* open upvalue; no loop is still running.                                 *)
C5_ErrorReturnsClean ==
  (host.last.fn = "interpret" /\ vm.error # "") =>
    /\ host.depth = 0 /\ host.result = "RUNTIME_ERROR"
    /\ vm.stackTop = 0 /\ vm.frameCount = 0 /\ vm.openUpvalues = 0

(* C6: when interpret has returned INTERPRET_OK the value stack is empty   *)
(* and there is no frame.                                                  *)
C6_ScriptReturnEmptiesStack ==
  (host.last.fn = "interpret" /\ host.depth = 0 /\ host.result = "OK") =>
    vm.stackTop = 0 /\ vm.frameCount = 0

(* C7: the run() that requireNative starts only ever executes the module's *)
(* frame and the frames above it: while it is active the frame count is    *)
(* not below the count it started with.                                    *)
C7_RequireRunsOnlyModule ==
  \A d \in 2..host.depth :
    host.loops[d] = "run" => vm.frameCount >= host.base[d]

(* C8: when callClosure has returned false, stackTop and frameCount are    *)
(* what they were when it was entered.                                     *)
C8_FailureRestores ==
  (host.last.fn = "callClosure" /\ host.depth = 0 /\ host.result = "false") =>
    /\ vm.stackTop = host.entry.stackTop
    /\ vm.frameCount = host.entry.frameCount

SameEffect(cc, rn) ==
  /\ cc.s = rn.s
  /\ (cc.r = "next") = (rn.r = "next")
  /\ (cc.r = "false") = (rn.r = "RUNTIME_ERROR")

(* C9: an instruction other than the return to the caller has the same     *)
(* effect on the VM, or raises the same runtime error, in the loop of      *)
(* callClosure as in run().                                                *)
C9_SameAsRun ==
  (Running("callClosure") /\ FrameValid /\ Fetched.op # "OP_RETURN") =>
    SameEffect(ccInstruction(READ_BYTE(vm), Fetched, host.base[host.depth]),
               runInstruction(READ_BYTE(vm), Fetched))

(* C10: the frame count is always between 0 and FRAMES_MAX. *)
C10_FrameCountInRange == vm.frameCount \in 0..FRAMES_MAX

(***************************************************************************)
(* Compiled programs.  The script's frame has reached its end when the     *)
(* next instruction is the OP_NIL of the final emitReturn: every statement *)
(* has run and the script's locals are still on the stack.                 *)
(***************************************************************************)
atEnd(s) ==
  /\ s.frameCount = 1 /\ s.ub = ""
  /\ frameOf(s).ip = Len(chunkOf(s).code) - 1
AtEnd == host.source \in Programs /\ Running("run") /\ atEnd(vm)
RuntimeError == host.source \in Programs /\ host.result = "RUNTIME_ERROR"
(* The stack slot of the script's local number slot. *)
localAt(s, slot) == slotAt(s, frameOf(s).slots + slot)

(* run() from s to the end of the script or to a runtime error, in at most *)
(* fuel instructions.                                                      *)
RECURSIVE runToEnd(_, _)
runToEnd(s, fuel) ==
  LET next(m) == IF m.r = "next" THEN runToEnd(m.s, fuel - 1) ELSE m
  IN IF fuel = 0 \/ atEnd(s) THEN [s |-> s, r |-> "end"]
     ELSE next(runInstruction(READ_BYTE(s), chunkOf(s).code[frameOf(s).ip]))

(* The value a script that is one `local r = e` gives r, or its error. *)
outcome(s, r) ==
  IF r = "RUNTIME_ERROR" THEN [error |-> s.error]
  ELSE [value |-> localAt(s, 1), stackTop |-> s.stackTop]
(* The outcome of the bytecode emitted without folding. *)
unfolded(source) ==
  LET result(m) == outcome(m.s, m.r)
      run(m) == result(runToEnd(m.s, MaxSteps))
  IN run(interpretFunction(
           loadFunctions(initVM, compile(Program(source), FALSE, 0), <<>>)))
Folds(source) ==
  compile(Program(source), TRUE, 0) # compile(Program(source), FALSE, 0)

(* C11: when the compiler has folded an operation of the program, the      *)
(* emitted bytecode gives the same value, or the same runtime error, as    *)
(* the bytecode emitted without folding.                                   *)
C11_FoldingPreservesMeaning ==
  /\ (AtEnd /\ Folds(host.source)) => outcome(vm, "end") = unfolded(host.source)
  /\ (RuntimeError /\ Folds(host.source)) =>
       outcome(vm, "RUNTIME_ERROR") = unfolded(host.source)

(* The values a numeric for from a to b by step gives its variable, and   *)
(* the number n holds after k iterations of a body n = n + n + i.         *)
RECURSIVE loopValues(_, _, _)
loopValues(a, b, step) ==
  IF a > b THEN <<>> ELSE <<a>> \o loopValues(a + step, b, step)
RECURSIVE digest(_, _)
digest(values, k) == IF k = 0 THEN 0 ELSE 2 * digest(values, k - 1) + values[k]
ForPrograms ==
  {"local n = 0 for i = 1, 3 do n = n + n + i end",
   "local n = 0 for i = 1, 3 do local x = i n = n + n + x end"}
InScript == Running("run") /\ vm.frameCount = 1 /\ frameOf(vm).ip > 1

(* C12: for i = 1, 3 runs its body with i = 1, 2, 3 in this order and     *)
(* then ends, also when the body declares a local: n, which the body      *)
(* doubles and adds i to, goes through 0, 1, 4, 11 and is 11 at the end,  *)
(* and no runtime error is raised.                                        *)
C12_ForIterates ==
  host.source \in ForPrograms =>
    /\ host.result \in {"", "OK"}
    /\ InScript =>
         \E k \in 0..3 :
           /\ localAt(vm, 1) = NUMBER_VAL(digest(loopValues(1, 3, 1), k))
           /\ atEnd(vm) => k = 3

(* The repeat loops and the value i has when the loop is left. *)
RepeatPrograms ==
  {"local i = 0 repeat i = i + 1 until i >= 5",
   "local i = 0 repeat i = i + 1 until true"}
repeatCount(source) ==
  IF source = "local i = 0 repeat i = i + 1 until i >= 5" THEN 5 ELSE 1

(* C13: repeat runs its body again for as long as the condition is falsey *)
(* and leaves the first time it is truthy: i counts the runs of the body, *)
(* never exceeds the count at which the condition becomes truthy, and has *)
(* this count when the script ends.                                       *)
C13_RepeatUntilTruthy ==
  (host.source \in RepeatPrograms /\ InScript) =>
    /\ localAt(vm, 1).v <= repeatCount(host.source)
    /\ atEnd(vm) => localAt(vm, 1).v = repeatCount(host.source)

(* The if chains: the body of branch number b adds 2^(b-1) to r, so r is  *)
(* the set of the bodies that have run.  ifBranch is the branch to run.   *)
IfPrograms ==
  {"local r = 0 if true then r = 1 elseif true then r = r + 2 else r = r + 4 end",
   "local r = 0 if false then r = 1 elseif true then r = r + 2 else r = r + 4 end",
   "local r = 0 if false then r = 1 elseif false then r = r + 2 else r = r + 4 end",
   "local r = 0 if false then r = 1 else r = r + 4 end"}
ifBranch(source) ==
  CASE source = "local r = 0 if true then r = 1 elseif true then r = r + 2 else r = r + 4 end" -> 1
    [] source = "local r = 0 if false then r = 1 elseif true then r = r + 2 else r = r + 4 end" -> 2
    [] OTHER -> 4

(* C14: in an if/elseif/else chain only the body of the first branch with *)
(* a truthy condition runs, or the else body if there is none, and the    *)
(* statement ends with the stack height it started with.                  *)
C14_OneBranchRuns ==
  (host.source \in IfPrograms /\ InScript) =>
    /\ localAt(vm, 1) \in {NUMBER_VAL(0), NUMBER_VAL(ifBranch(host.source))}
    /\ atEnd(vm) =>
         /\ localAt(vm, 1) = NUMBER_VAL(ifBranch(host.source))
         /\ vm.stackTop = 2

(* C15: locals declared in a branch or a loop body are scoped to it: the  *)
(* else branch may declare the name the then branch declared, and a local *)
(* declared after a branch that was skipped is read from the slot it was  *)
(* pushed to (r = y = 2 with the script's two locals on the stack).       *)
C15_BodyLocalsScoped ==
  /\ host.source = "if false then local x = 1 else local x = 2 end" =>
       host.result # "COMPILE_ERROR"
  /\ (host.source = "if false then local x = 1 end local y = 2 local r = y"
      /\ Running("run") /\ atEnd(vm)) =>
       /\ peek(vm, 0) = NUMBER_VAL(2)
       /\ vm.stackTop = 3

(* The loops left by break or repeated by continue, and the stack height *)
(* at the entry of the loop.                                              *)
BreakPrograms ==
  {"while true do local x = 1 break end",
   "while true do do local x = 1 break end end",
   "local n = 0 while n < 2 do n = n + 1 local x = n continue end",
   "local n = 0 while n < 2 do n = n + 1 continue end"}
loopEntryHeight(source) ==
  IF source \in {"while true do local x = 1 break end",
                 "while true do do local x = 1 break end end"} THEN 1 ELSE 2

(* C16: break and continue pop every local declared inside the loop: when *)
(* the loop has been left the stack has the height it had at loop entry.  *)
C16_BreakRestoresStack ==
  (host.source \in BreakPrograms /\ Running("run") /\ atEnd(vm)) =>
    vm.stackTop = loopEntryHeight(host.source)

(* C17: continue in a numeric for goes to the increment section and in a *)
(* while to the condition: the for below skips the rest of the body for   *)
(* i = 2 only, so n goes through 0, 1, 4 and is 4 at the end; the while   *)
(* ends with n = 2.  The script compiles and no fetch leaves the chunk.   *)
C17_ContinueTarget ==
  /\ host.source = "local n = 0 for i = 1, 3 do if i == 2 then continue end n = n + i end" =>
       /\ host.result \in {"", "OK"} /\ vm.ub = ""
       /\ InScript => localAt(vm, 1) \in {NUMBER_VAL(0), NUMBER_VAL(1), NUMBER_VAL(4)}
       /\ (InScript /\ atEnd(vm)) => localAt(vm, 1) = NUMBER_VAL(4)
  /\ (host.source = "local n = 0 while n < 2 do n = n + 1 continue end"
      /\ InScript /\ atEnd(vm)) => localAt(vm, 1) = NUMBER_VAL(2)

(* Programs with a local function f: in the first two r = f follows the  *)
(* declaration, in the last two the body of f reads f into its local g.   *)
LocalFunctionPrograms ==
  {"local function f() end local r = f",
   "do local function f() end local r = f end",
   "local function f() local g = f end f()",
   "do local function f() local g = f end f() end"}
AfterLocalR ==
  /\ host.source \in {"local function f() end local r = f",
                      "do local function f() end local r = f end"}
  /\ Running("run") /\ vm.frameCount = 1 /\ vm.stackTop = 3
InBodyOfF ==
  /\ host.source \in {"local function f() local g = f end f()",
                      "do local function f() local g = f end f() end"}
  /\ Running("run") /\ vm.frameCount = 2
  /\ frameOf(vm).ip = Len(chunkOf(vm).code) - 1

(* C18: after local function f, at the top level of the script as inside  *)
(* a block, the program compiles, f read by the following statement is    *)
(* the closure in f's slot, and f read inside its own body is the closure *)
(* that is running.                                                       *)
C18_LocalFunctionInitialized ==
  /\ host.source \in LocalFunctionPrograms => host.result # "COMPILE_ERROR"
  /\ AfterLocalR => IsType(vm, slotAt(vm, 1), "closure") /\ slotAt(vm, 2) = slotAt(vm, 1)
  /\ InBodyOfF => localAt(vm, 1) = OBJ_VAL(frameOf(vm).closure)

(* The chain of the test SuperMethodChain; foo of A returns 1, foo of B   *)
(* adds 2 and foo of C adds 4 to what super.foo() returns.                *)
SuperChain ==
  "class A function foo() return 1 end end class B extends A function foo() return super.foo() + 2 end end class C extends B function foo() return super.foo() + 4 end end local c = new C() local r = c:foo() local b = new B() local q = b:foo()"
(* Frame k + 1 runs a method of the declared superclass of the class that *)
(* declares the method of frame k.                                        *)
SuperDispatch(s) ==
  \A k \in 2..(s.frameCount - 1) :
    \E c \in Addr :
      /\ s.heap[c].type = "class"
      /\ \E n \in DOMAIN s.heap[c].methods :
           /\ s.heap[c].methods[n] = OBJ_VAL(s.frames[k].closure)
           /\ s.heap[s.heap[c].superclass].methods[n] = OBJ_VAL(s.frames[k + 1].closure)
           /\ s.heap[c].methods[n] # OBJ_VAL(s.frames[k + 1].closure)

(* C19: super.foo() in a method of a class runs foo of the class's        *)
(* declared superclass whatever the class of self is: foo on an instance  *)
(* of C runs foo of C, of B and of A once each (r = 4 + 2 + 1), foo on an *)
(* instance of B runs foo of B and of A (q = 2 + 1), no call nests deeper *)
(* than the chain and no runtime error is raised.                         *)
C19_SuperDispatch ==
  host.source = SuperChain =>
    /\ host.result \in {"", "OK"}
    /\ vm.frameCount <= 4
    /\ Running("run") => SuperDispatch(vm)
    /\ (Running("run") /\ atEnd(vm)) =>
         /\ localAt(vm, 2) = NUMBER_VAL(7)
         /\ localAt(vm, 4) = NUMBER_VAL(3)
C19_ChainRan ==
  /\ host.source = SuperChain /\ Running("run") /\ atEnd(vm)
  /\ localAt(vm, 2) = NUMBER_VAL(7) /\ localAt(vm, 4) = NUMBER_VAL(3)

(* The class a program instantiates, and the instances of the heap. *)
newClassName(source) ==
  CASE source = NewWithInit -> "P"
    [] source = NewInherited -> "Q"
    [] source = NewInitReturns -> "R"
    [] source = NewInitBranches -> "S"
    [] OTHER -> "E"
isInstanceOf(s, v, chars) ==
  /\ IsType(s, v, "instance")
  /\ s.heap[s.heap[s.heap[v.v].klass].name].chars = chars
Instances(s) == {a \in Addr : s.heap[a].type = "instance"}
(* The frame of init, called by OP_NEW from the script. *)
inInit(s) ==
  /\ s.frameCount >= 2
  /\ s.heap[s.heap[s.heap[s.frames[2].closure].function].name].chars = "init"

(* C20: new C(a1..an) puts a fresh instance of C in the slot the class    *)
(* occupied: while init (own or inherited) runs, slot 0 of its frame is   *)
(* that slot and holds the instance, followed by the n arguments; when    *)
(* the script ends the value of the expression is the one instance of C,  *)
(* whatever the body of init did; with no init and one argument the       *)
(* runtime error 'Expected 0 arguments' is raised, and no other program   *)
(* raises an error.                                                       *)
C20_NewYieldsInstance ==
  host.source \in NewPrograms =>
    /\ (Running("run") /\ inInit(vm)) =>
         /\ vm.frames[2].slots = 1
         /\ isInstanceOf(vm, slotAt(vm, 1), newClassName(host.source))
         /\ host.source = NewWithInit => slotAt(vm, 2) = NUMBER_VAL(7)
    /\ (Running("run") /\ atEnd(vm)) =>
         /\ host.source # NewNoInitArgs
         /\ isInstanceOf(vm, localAt(vm, 1), newClassName(host.source))
         /\ Cardinality(Instances(vm)) = 1
    /\ host.result # "" =>
         IF host.source = NewNoInitArgs
         THEN host.result = "RUNTIME_ERROR" /\ vm.error = "Expected 0 arguments."
         ELSE host.result = "OK"

(***************************************************************************)
(* Properties of the table operations.                                     *)
(***************************************************************************)
(* A key the table can hold, the keys a table holds, and what TABLE_GET    *)
(* yields for a key.                                                       *)
isTableKey(s, key) ==
  IS_STRING(s, key) \/ (IS_NUMBER(key) /\ key = NUMBER_VAL(key.v) /\ key.v >= 1)
holdsKey(s, table, key) ==
  \/ key \in {NUMBER_VAL(n) : n \in 1..Len(table.array)}
  \/ IS_STRING(s, key) /\ key.v \in DOMAIN table.entries
yields(s, t, key) == peek(tableGetOp(push(push(s, OBJ_VAL(t)), key)).s, 0)
beforeLast == [vm EXCEPT !.heap[host.ret.v] = host.last.before]

(* C21: after TABLE_SET(t, k, v) with k a string or an integer >= 1,      *)
(* TABLE_GET(t, k) yields v and every other such key yields what it       *)
(* yielded before; an integer k above the array count leaves the array    *)
(* with exactly k elements, nil in the new gaps; TABLE_GET of a key the   *)
(* table does not hold yields nil.                                        *)
C21_SetThenGet ==
  LET table == vm.heap[host.ret.v]
      key == host.last.key
      count == Len(host.last.before.array)
  IN /\ (host.last.fn = "TABLE_SET" /\ isTableKey(vm, key)) =>
          /\ host.last.r = "next" /\ host.last.top = host.last.value
          /\ yields(vm, host.ret.v, key) = host.last.value
          /\ \A other \in TableKeys(vm, host.ret.v) \ {key} :
               isTableKey(vm, other) =>
                 yields(vm, host.ret.v, other) = yields(beforeLast, host.ret.v, other)
          /\ (IS_NUMBER(key) /\ key.v > count) =>
               /\ Len(table.array) = key.v
               /\ \A j \in (count + 1)..(key.v - 1) : table.array[j] = NIL_VAL
     /\ (host.last.fn = "TABLE_GET" /\ ~holdsKey(vm, table, key)) =>
          host.last.r = "next" /\ host.last.top = NIL_VAL

(* C22: TABLE_SET with a key that is neither a string nor an integer >= 1 *)
(* (nil, a boolean, 0, a negative number, 1.5, an object that is no       *)
(* string) raises the runtime error for table keys and leaves the table   *)
(* as it was.                                                             *)
C22_BadKeyRejected ==
  (host.last.fn = "TABLE_SET" /\ ~isTableKey(vm, host.last.key)) =>
    /\ host.last.r = "RUNTIME_ERROR"
    /\ vm.error = "Table key must be a string or positive integer."
    /\ vm.heap[host.ret.v] = host.last.before

(* The entries of a table in the order of the traversal: the array part  *)
(* by index, then the hash part by slot.                                 *)
inOrder(s, table) ==
  LET slots == bySlot(s, DOMAIN table.entries)
  IN [i \in 1..Len(table.array) |-> <<NUMBER_VAL(i), table.array[i]>>] \o
     [i \in 1..Len(slots) |-> <<OBJ_VAL(slots[i]), table.entries[slots[i]]>>]
isPrefix(p, q) == Len(p) <= Len(q) /\ p = SubSeq(q, 1, Len(p))

(* C23: the traversal that starts with next(t, nil) and passes each key  *)
(* returned back to next returns the array entries in index order, then  *)
(* the hash entries in slot order, each once, and then nil.              *)
C23_NextVisitsAll ==
  host.last.fn = "next" =>
    /\ isPrefix(host.last.visited, inOrder(vm, vm.heap[host.ret.v]))
    /\ host.last.ended => host.last.visited = inOrder(vm, vm.heap[host.ret.v])

(* C24: assigning to a global that was never defined raises a runtime    *)
(* error and the globals table never holds the name; assigning to a      *)
(* defined global replaces its value and leaves the assigned value on    *)
(* the stack, where the enclosing declaration takes it as its local.     *)
C24_SetGlobal ==
  /\ host.source = GlobalUndefined =>
       /\ internedString(vm, "x") \notin DOMAIN vm.globals
       /\ host.result \in {"", "RUNTIME_ERROR"}
       /\ host.result = "RUNTIME_ERROR" => vm.error = "Undefined variable."
  /\ host.source = GlobalDefined =>
       /\ host.result \in {"", "OK"}
       /\ (Running("run") /\ atEnd(vm)) =>
            /\ localAt(vm, 1) = NUMBER_VAL(10)
            /\ localAt(vm, 2) = NUMBER_VAL(10)
            /\ vm.globals[internedString(vm, "G")] = NUMBER_VAL(10)
C24_UndefinedRejected ==
  /\ host.source = GlobalUndefined /\ host.result = "RUNTIME_ERROR"
  /\ vm.error = "Undefined variable."
  /\ internedString(vm, "x") \notin DOMAIN vm.globals

(***************************************************************************)
(* Interning with more of the natives of initVM registered: the intern     *)
(* table holds eight strings when the host starts to intern its own.  The  *)
(* first collection is one to MaxFirstGC allocation units away.            *)
(***************************************************************************)
MoreNativeNames == <<"read", "type", "tonumber", "tostring", "pairs">>
MaxFirstGC == 4
MaxInterned == 2
internRoom(s) == Cardinality(DOMAIN s.strings) < GROW_CAPACITY(0) + MaxInterned
InternInit ==
  /\ \E s \in {defineNatives(initVM, MoreNativeNames)} : \E first \in 1..MaxFirstGC :
       vm = [s EXCEPT !.nextGC = s.bytesAllocated + first]
  /\ host = HostInit
InternCopyString ==
  \E c \in Chars : \E interned \in tableFindString(vm, c) :
    /\ vm.ub = "" /\ internRoom(vm)
    /\ \E m \in {copyString(vm, c, interned)} :
         /\ vm' = m.s
         /\ host' = [host EXCEPT !.ret = OBJ_VAL(m.r),
                                 !.last = [fn |-> "copyString", chars |-> c]]
InternConcat ==
  /\ vm.ub = "" /\ vm.stackTop >= 2 /\ internRoom(vm)
  /\ IS_STRING(vm, peek(vm, 0)) /\ IS_STRING(vm, peek(vm, 1))
  /\ \E c \in {vm.heap[peek(vm, 1).v].chars \o vm.heap[peek(vm, 0).v].chars} :
       /\ Len(c) <= MaxLen
       /\ \E interned \in tableFindString(vm, c) :
            /\ vm' = concatenate(vm, interned)
            /\ host' = [host EXCEPT !.ret = peek(vm', 0),
                                    !.last = [fn |-> "takeString", chars |-> c]]
InternNext == InternCopyString \/ InternConcat \/ HostPush \/ HostPop
InternSpec == InternInit /\ [][InternNext]_vars

(* C28: no collection frees an object between its allocation and the end *)
(* of the operation that creates it: the string that copyString,         *)
(* takeString and concatenate allocate is live when it is interned.      *)
C28_NewObjectRooted == vm.unrooted = {}

(***************************************************************************)
(* Table operations with the collector close: the script has run           *)
(* `local t = {} local k = "a"`, so the table is in slot 0 and the string  *)
(* in slot 1, and goes on with the statements `t[key] = {}`, `{ {} }`,     *)
(* `{ a = {} }` and `next(t)`, each an expression statement whose value is *)
(* popped.                                                                 *)
(***************************************************************************)
MaxTableOps == 3
GrowInit ==
  \E m \in {tableVM} :
  \E s \in {push(push(m.s, OBJ_VAL(m.r)), OBJ_VAL(internedString(m.s, "a")))} :
  \E first \in 1..MaxFirstGC :
    /\ vm = [s EXCEPT !.nextGC = s.bytesAllocated + first]
    /\ host = [HostInit EXCEPT !.ret = OBJ_VAL(m.r)]
statementDone(m, fn) ==
  /\ vm' = IF m.r = "next" THEN pop(m.s) ELSE m.s
  /\ host' = [host EXCEPT !.calls = @ + 1, !.last = [fn |-> fn, r |-> m.r]]
pushTable(m) == push(m.s, OBJ_VAL(m.r))
newTableOn(s) == pushTable(newTable(s))
(* OP_GET_LOCAL 0, the key, OP_TABLE, OP_TABLE_SET, OP_POP *)
StoreNewTable ==
  /\ vm.ub = "" /\ host.calls < MaxTableOps
  /\ \E key \in {NUMBER_VAL(1), NUMBER_VAL(2), slotAt(vm, 1)} :
     \E value \in {newTableOn(push(push(vm, slotAt(vm, 0)), key))} :
     \E m \in {tableSetOp(value)} :
       statementDone(m, "TABLE_SET")
(* OP_TABLE, OP_TABLE, OP_TABLE_ADD, OP_POP *)
LiteralAdd ==
  /\ vm.ub = "" /\ host.calls < MaxTableOps
  /\ \E outer \in {newTableOn(vm)} : \E inner \in {newTableOn(outer)} :
     \E m \in {tableAdd(inner)} :
       statementDone(m, "TABLE_ADD")
(* OP_TABLE, OP_TABLE, OP_TABLE_SET_FIELD "a", OP_POP *)
LiteralField ==
  /\ vm.ub = "" /\ host.calls < MaxTableOps
  /\ \E outer \in {newTableOn(vm)} : \E inner \in {newTableOn(outer)} :
     \E m \in {tableSetField(inner, slotAt(vm, 1).v)} :
       statementDone(m, "TABLE_SET_FIELD")
(* OP_GET_GLOBAL next, OP_GET_LOCAL 0, OP_CALL 1, OP_POP *)
NextOfTable ==
  /\ vm.ub = "" /\ host.calls < MaxTableOps
  /\ \E m \in {callValue(push(push(vm, vm.globals[internedString(vm, "next")]),
                               slotAt(vm, 0)),
                          vm.globals[internedString(vm, "next")], 1)} :
       statementDone(m, "next")
GrowNext == StoreNewTable \/ LiteralAdd \/ LiteralField \/ NextOfTable
GrowSpec == GrowInit /\ [][GrowNext]_vars

(* C29: no table was written after a collection freed it, and no table    *)
(* holds a key or a value that a collection freed: what the table         *)
(* operations store stays live while the table grows.                     *)
liveValue(s, v) == IS_OBJ(v) => IsLive(s, v.v)
C29_OperandsSurviveGrowth ==
  /\ vm.ub # "write to a freed table"
  /\ \A a \in Addr :
       vm.heap[a].type = "table" =>
         /\ \A i \in 1..Len(vm.heap[a].array) : liveValue(vm, vm.heap[a].array[i])
         /\ \A k \in DOMAIN vm.heap[a].entries :
              IsLive(vm, k) /\ liveValue(vm, vm.heap[a].entries[k])

(***************************************************************************)
(* Compiler diagnostics.  A source is a sequence of declarations:          *)
(* `local name = 1`, `local name = )`, the expression statement `name`,    *)
(* and a stray `)`.  parser.pos is the declaration parser.current is at;   *)
(* stderr holds the diagnostics and the summary in the order printed.      *)
(***************************************************************************)
MAX_ERRORS == 8
MaxBad == 10
LocalOk(name) == [k |-> "local", name |-> name, init |-> "1"]
LocalBad(name) == [k |-> "local", name |-> name, init |-> ")"]
Name(name) == [k |-> "name", name |-> name]
Stray == [k |-> ")"]
PlainDeclarations ==
  {LocalOk(<<"u">>), LocalOk(<<"_", "t">>), Name(<<"u">>), Stray}
BadDeclarations == {LocalBad(<<"x">>), LocalBad(<<"_", "x">>)}
DiagSources ==
  {pre \o [i \in 1..n |-> bad] \o post :
     pre \in {<<>>} \cup {<<d>> : d \in PlainDeclarations},
     post \in {<<>>} \cup {<<d>> : d \in PlainDeclarations},
     n \in 0..MaxBad, bad \in BadDeclarations}

shouldStopCompiling(p) == p.errorCount >= MAX_ERRORS
reportDiagnostic(p, level, message) ==
  [p EXCEPT !.errorCount = IF level = "error" THEN @ + 1 ELSE @,
            !.warningCount = IF level = "warning" THEN @ + 1 ELSE @,
            !.stderr = Append(@, [level |-> level, message |-> message])]
errorAtToken(p, message) ==
  IF p.panicMode THEN p
  ELSE IF shouldStopCompiling(p) THEN p
  ELSE reportDiagnostic([p EXCEPT !.panicMode = TRUE, !.hadError = TRUE],
                        "error", message)
warning(p, message) ==
  IF p.panicMode THEN p ELSE reportDiagnostic(p, "warning", message)

(* synchronize: skip to the next `local` or to the end of the source. *)
RECURSIVE synchronizeFrom(_)
synchronizeFrom(p) ==
  IF p.pos > Len(p.source) \/ p.source[p.pos].k = "local" THEN p
  ELSE synchronizeFrom([p EXCEPT !.pos = @ + 1])
synchronize(p) == synchronizeFrom([p EXCEPT !.panicMode = FALSE])

(* localStatement with declareLocalVariable and addLocal at scope depth 0. *)
localVariable(p, d) ==
  LET slot == Len(p.locals) + 1
      declared(x) ==
        [x EXCEPT !.locals = Append(@, [name |-> d.name, depth |-> -1, isUsed |-> FALSE])]
      initializer(x) ==
        IF d.init = ")" THEN errorAtToken(x, "Expect expression.") ELSE x
      initialized(x) == [x EXCEPT !.locals[slot].depth = 0]
  IN initialized(initializer(declared(
       IF \E i \in 1..Len(p.locals) : p.locals[i].name = d.name
       THEN errorAtToken(p, "Already a variable with this name in this scope.")
       ELSE p)))
(* namedVariable with resolveLocal: the innermost local of that name is used. *)
variableRead(p, d) ==
  LET found == {i \in 1..Len(p.locals) : p.locals[i].name = d.name}
      last == CHOOSE i \in found : \A j \in found : j <= i
  IN IF found = {} THEN p ELSE [p EXCEPT !.locals[last].isUsed = TRUE]
parseDeclaration(p) ==
  LET d == p.source[p.pos]
      parsed(x) ==
        CASE d.k = "local" -> localVariable(x, d)
          [] d.k = "name" -> variableRead(x, d)
          [] OTHER -> errorAtToken(x, "Expect expression.")
      recover(x) == IF x.panicMode THEN synchronize(x) ELSE x
  IN recover(parsed([p EXCEPT !.pos = @ + 1]))

(* endCompiler's warnings for the unused locals, slot 0 skipped. *)
RECURSIVE unusedVariables(_, _)
unusedVariables(p, i) ==
  IF i > Len(p.locals) THEN p
  ELSE unusedVariables(
         IF ~p.locals[i].isUsed /\ Len(p.locals[i].name) > 0
            /\ p.locals[i].name[1] # "_"
         THEN warning(p, "unused variable") ELSE p,
         i + 1)
summary(p) ==
  IF p.errorCount > 0 \/ p.warningCount > 0
  THEN [p EXCEPT !.stderr = Append(@, [level |-> "summary", message |-> "compilation"])]
  ELSE p
initParser(source) ==
  [source |-> source, pos |-> 1, panicMode |-> FALSE, hadError |-> FALSE,
   errorCount |-> 0, warningCount |-> 0, stderr |-> <<>>,
   locals |-> <<[name |-> <<>>, depth |-> 0, isUsed |-> FALSE]>>,
   result |-> ""]

DiagInit ==
  /\ vm = initVM
  /\ \E source \in DiagSources : host = initParser(source)
(* One iteration of the loop of compileWithFilename. *)
Declaration ==
  /\ host.result = ""
  /\ host.pos <= Len(host.source)
  /\ ~shouldStopCompiling(host)
  /\ host' = parseDeclaration(host)
  /\ UNCHANGED vm
(* After the loop: endCompiler, the summary and the result. *)
EndCompile ==
  /\ host.result = ""
  /\ host.pos > Len(host.source) \/ shouldStopCompiling(host)
  /\ host' = [summary(unusedVariables(host, 2)) EXCEPT
                !.result = IF host.hadError THEN "NULL" ELSE "function"]
  /\ UNCHANGED vm
DiagNext == Declaration \/ EndCompile
DiagSpec == DiagInit /\ [][DiagNext]_vars

(* C25: at most 8 errors are reported; a source with more than 8 erroneous *)
(* declarations gets exactly 8; and after the eighth error nothing but the *)
(* summary line is printed, neither an error nor a warning.                *)
levels(h, level) == {i \in 1..Len(h.stderr) : h.stderr[i].level = level}
badDeclarations(h) ==
  Cardinality({i \in 1..Len(h.source) : h.source[i] \in BadDeclarations})
C25_EightDiagnostics ==
  /\ Cardinality(levels(host, "error")) <= MAX_ERRORS
  /\ (host.result # "" /\ badDeclarations(host) > MAX_ERRORS) =>
       Cardinality(levels(host, "error")) = MAX_ERRORS
  /\ Cardinality(levels(host, "error")) = MAX_ERRORS =>
       \A i \in 1..Len(host.stderr) :
         (\A e \in levels(host, "error") : e < i) =>
           host.stderr[i].level = "summary"

(* C26: right after a sweep the all-objects list holds exactly the objects *)
(* the mark phase marked, each once and none of them marked any more, the  *)
(* gray stack is empty, and the objects that were on the list unmarked are *)
(* exactly the ones freed, none of them freed before.                      *)
C26_SweepResult ==
  vm.gcRan =>
    /\ Range(vm.swept.objects) = vm.swept.marked
    /\ Len(vm.swept.objects) = Cardinality(vm.swept.marked)
    /\ vm.swept.stillMarked = {}
    /\ vm.swept.grayStack = <<>>
    /\ vm.swept.freed = Range(vm.swept.before) \ vm.swept.marked
    /\ vm.ub # "free of a freed object"
C26_SweptSome ==
  /\ vm.gcRan
  /\ vm.swept.freed # {}
  /\ vm.swept.marked # {}
  /\ vm.swept.stillMarked = {}

(***************************************************************************)
(* The scanner of debug.h.  A source is a sequence of characters, the      *)
(* terminating NUL is read as "".  lexer.start and lexer.current are       *)
(* positions in the source, the first character at 1.  The sources hold no *)
(* keyword, so identifierType yields TOKEN_IDENTIFIER.                     *)
(***************************************************************************)
MaxSource == 5
ScanChars == {".", "1", "a", "e", " "}
ClaimSources ==
  {<<"1", "2", "3", ".", "a", "b", "c">>, <<"1", ".", ".", "1", "0">>}
ScanSources ==
  UNION {[1..n -> ScanChars] : n \in 0..MaxSource} \cup ClaimSources
charAt(source, i) == IF i \in 1..Len(source) THEN source[i] ELSE ""
initLexer(source) == [source |-> source, start |-> 1, current |-> 1]
isAtEnd(lx) == charAt(lx.source, lx.current) = ""
advance(lx) == [lx EXCEPT !.current = @ + 1]
peekChar(lx) == charAt(lx.source, lx.current)
peekNext(lx) == IF isAtEnd(lx) THEN "" ELSE charAt(lx.source, lx.current + 1)
match(lx, expected) ==
  IF isAtEnd(lx) \/ peekChar(lx) # expected THEN [lx |-> lx, r |-> FALSE]
  ELSE [lx |-> advance(lx), r |-> TRUE]
makeToken(lx, type) ==
  [lx |-> lx,
   token |-> [type |-> type, start |-> lx.start, length |-> lx.current - lx.start]]
isDigit(c) == c \in {"0", "1", "2", "3", "4", "5", "6", "7", "8", "9"}
isAlpha(c) == c \in {"a", "b", "c", "e", "_"}
RECURSIVE skipWhitespace(_)
skipWhitespace(lx) ==
  IF peekChar(lx) = " " THEN skipWhitespace(advance(lx)) ELSE lx
RECURSIVE identifierChars(_)
identifierChars(lx) ==
  IF isAlpha(peekChar(lx)) \/ isDigit(peekChar(lx))
  THEN identifierChars(advance(lx)) ELSE lx
identifier(lx) == makeToken(identifierChars(lx), "TOKEN_IDENTIFIER")
RECURSIVE digits(_)
digits(lx) == IF isDigit(peekChar(lx)) THEN digits(advance(lx)) ELSE lx
numberTakesDot(lx) ==
  LET decimal(x) == IF peekChar(x) = "." THEN digits(advance(x)) ELSE x
      sign(x) == IF peekChar(x) \in {"+", "-"} THEN advance(x) ELSE x
      exponent(x) ==
        IF peekChar(x) \in {"e", "E"} THEN digits(sign(advance(x))) ELSE x
  IN makeToken(exponent(decimal(digits(lx))), "TOKEN_NUMBER")
number(lx) ==
  LET decimal(x) ==
        IF peekChar(x) = "." /\ isDigit(peekNext(x)) THEN digits(advance(x)) ELSE x
      sign(x) == IF peekChar(x) \in {"+", "-"} THEN advance(x) ELSE x
      exponent(x) ==
        IF peekChar(x) \in {"e", "E"} THEN digits(sign(advance(x))) ELSE x
  IN makeToken(exponent(decimal(digits(lx))), "TOKEN_NUMBER")
scanToken(lexer) ==
  LET begin(x) == [x EXCEPT !.start = x.current]
      dots(m) ==
        IF m.r
        THEN makeToken(match(m.lx, ".").lx,
                       IF match(m.lx, ".").r THEN "TOKEN_DOT_DOT_DOT" ELSE "TOKEN_DOT_DOT")
        ELSE makeToken(m.lx, "TOKEN_DOT")
      scan(lx, c) ==
        IF isAlpha(c) THEN identifier(lx)
        ELSE IF isDigit(c) THEN number(lx)
        ELSE IF c = "." THEN dots(match(lx, "."))
        ELSE makeToken(lx, "TOKEN_ERROR")
      token(lx) ==
        IF isAtEnd(lx) THEN makeToken(lx, "TOKEN_EOF")
        ELSE scan(advance(lx), peekChar(lx))
  IN token(begin(skipWhitespace(lexer)))

ScanInit ==
  /\ vm = initVM
  /\ \E source \in ScanSources :
       host = [source |-> source, lexer |-> initLexer(source), tokens |-> <<>>]
(* The caller asks for the next token until it gets TOKEN_EOF. *)
scanned(h) == h.tokens # <<>> /\ h.tokens[Len(h.tokens)].type = "TOKEN_EOF"
ScanToken ==
  /\ ~scanned(host)
  /\ host' = [host EXCEPT !.lexer = scanToken(host.lexer).lx,
                          !.tokens = Append(@, scanToken(host.lexer).token)]
  /\ UNCHANGED vm
ScanSpec == ScanInit /\ [][ScanToken]_vars

(* C27: a `.` or `..` token is never followed by another dot; a dot inside *)
(* a number has a digit after it, and a number of digits alone never stops *)
(* before a dot that a digit follows; `..`, `...`, `....`, `123.abc` and   *)
(* `1..10` scan as the claim lists.                                        *)
lexeme(h, tok) == SubSeq(h.source, tok.start, tok.start + tok.length - 1)
following(h, tok, n) == charAt(h.source, tok.start + tok.length + n)
tokenTypes(h) == [i \in 1..Len(h.tokens) |-> h.tokens[i].type]
C27_MaximalMunch ==
  /\ \A i \in 1..Len(host.tokens) :
       LET tok == host.tokens[i]
           text == lexeme(host, tok)
       IN /\ tok.type \in {"TOKEN_DOT", "TOKEN_DOT_DOT"} => following(host, tok, 0) # "."
          /\ tok.type = "TOKEN_NUMBER" =>
               /\ \A k \in 1..Len(text) :
                    text[k] = "." => k < Len(text) /\ isDigit(text[k + 1])
               /\ ((\A k \in 1..Len(text) : isDigit(text[k]))
                   /\ following(host, tok, 0) = ".") => ~isDigit(following(host, tok, 1))
  /\ scanned(host) =>
       /\ host.source = <<".", ".">> => tokenTypes(host) = <<"TOKEN_DOT_DOT", "TOKEN_EOF">>
       /\ host.source = <<".", ".", ".">> =>
            tokenTypes(host) = <<"TOKEN_DOT_DOT_DOT", "TOKEN_EOF">>
       /\ host.source = <<".", ".", ".", ".">> =>
            tokenTypes(host) = <<"TOKEN_DOT_DOT_DOT", "TOKEN_DOT", "TOKEN_EOF">>
       /\ host.source = <<"1", "2", "3", ".", "a", "b", "c">> =>
            /\ tokenTypes(host) =
                 <<"TOKEN_NUMBER", "TOKEN_DOT", "TOKEN_IDENTIFIER", "TOKEN_EOF">>
            /\ lexeme(host, host.tokens[1]) = <<"1", "2", "3">>
       /\ host.source = <<"1", ".", ".", "1", "0">> =>
            tokenTypes(host) =
              <<"TOKEN_NUMBER", "TOKEN_DOT_DOT", "TOKEN_NUMBER", "TOKEN_EOF">>
C27_NumberDotName ==
  /\ scanned(host)
  /\ host.source = <<"1", "2", "3", ".", "a", "b", "c">>
  /\ tokenTypes(host) = <<"TOKEN_NUMBER", "TOKEN_DOT", "TOKEN_IDENTIFIER", "TOKEN_EOF">>

(***************************************************************************)
(* The open-upvalue list under captureUpvalue and closeUpvalues, called as *)
(* OP_CLOSURE, OP_CLOSE_UPVALUE and OP_RETURN call them, with the locals   *)
(* of one frame captured in any order.                                     *)
(***************************************************************************)
MaxSlots == 3
MaxCaptures == 4
openNode(s, u) == [upvalue |-> u, location |-> s.heap[u].location]
nodesOf(s, list) == [i \in DOMAIN list |-> openNode(s, list[i])]
openNodes(s) == nodesOf(s, openUpvalueList(s))
UpvalueInit ==
  \E s \in {push(push(push(initVM, NUMBER_VAL(1)), NUMBER_VAL(2)), NUMBER_VAL(3))} :
  \E first \in 1..MaxFirstGC :
    /\ vm = [s EXCEPT !.nextGC = s.bytesAllocated + first]
    /\ host = HostInit
(* OP_CLOSURE, isLocal: closure->upvalues[i] = captureUpvalue(frame->slots + index) *)
CaptureLocal ==
  /\ vm.ub = "" /\ host.calls < MaxCaptures
  /\ \E local \in 0..(MaxSlots - 1) : \E m \in {captureUpvalue(vm, local)} :
       /\ vm' = m.s
       /\ host' = [host EXCEPT !.calls = @ + 1,
                               !.last = [fn |-> "captureUpvalue", local |-> local,
                                         before |-> openNodes(vm), r |-> m.r]]
(* OP_CLOSE_UPVALUE and OP_RETURN: closeUpvalues(a slot of the frame) *)
CloseFrom ==
  /\ vm.ub = ""
  /\ \E last \in 0..MaxSlots :
       /\ vm' = closeUpvalues(vm, last)
       /\ host' = [host EXCEPT !.last = [fn |-> "closeUpvalues", last |-> last,
                                         before |-> openNodes(vm), r |-> 0]]
UpvalueNext == CaptureLocal \/ CloseFrom
UpvalueSpec == UpvalueInit /\ [][UpvalueNext]_vars

(* C30: the open-upvalue list is strictly sorted by descending stack slot  *)
(* (so no slot has two nodes); captureUpvalue returns the node of its slot *)
(* and adds at most that node; closeUpvalues(last) closes and unlinks      *)
(* exactly the nodes whose slot is at or above last.                       *)
strictlyDescending(nodes) ==
  \A i, j \in DOMAIN nodes : i < j => nodes[i].location > nodes[j].location
isClosed(s, u) == s.heap[u].type = "upvalue" /\ s.heap[u].location = -1
afterCapture(s, done) ==
  /\ Range(openNodes(s)) = Range(done.before) \cup {[upvalue |-> done.r, location |-> done.local]}
  /\ \A n \in Range(done.before) : n.location = done.local => n.upvalue = done.r
afterClose(s, done) ==
  /\ Range(openNodes(s)) = {n \in Range(done.before) : n.location < done.last}
  /\ \A n \in Range(done.before) : n.location >= done.last => isClosed(s, n.upvalue)
C30_OpenUpvaluesSorted ==
  /\ strictlyDescending(openNodes(vm))
  /\ host.last.fn = "captureUpvalue" => afterCapture(vm, host.last)
  /\ host.last.fn = "closeUpvalues" => afterClose(vm, host.last)
(* Three locals captured with the middle slot last, then closed from the   *)
(* middle slot: two nodes closed, one left open.                           *)
C30_ClosedSuffix ==
  /\ host.last.fn = "closeUpvalues" /\ host.last.last = 1
  /\ Len(host.last.before) = 3
  /\ host.last.before[2].upvalue > host.last.before[1].upvalue
  /\ host.last.before[2].upvalue > host.last.before[3].upvalue
  /\ Len(openNodes(vm)) = 1

(* C31: every upvalue of a closure reachable from the roots is closed, or  *)
(* is in the open-upvalue list and points at a stack slot below stackTop.  *)
upvaluesOf(s, live) ==
  UNION {Range(s.heap[a].upvalues) : a \in {x \in live : s.heap[x].type = "closure"}}
openOnStack(s, u) ==
  /\ s.heap[u].type = "upvalue"
  /\ s.heap[u].location \in 0..(s.stackTop - 1)
  /\ u \in Range(openUpvalueList(s))
C31_CapturedLocalsClosed ==
  \A u \in upvaluesOf(vm, Reachable(vm)) \ {0} : isClosed(vm, u) \/ openOnStack(vm, u)

(***************************************************************************)
(* The folding peephole of compiler.c on the bytes of the chunk.  A chunk  *)
(* is [code, constants], code a sequence of bytes; the parser functions    *)
(* act in the order in which the Pratt parser calls them for an            *)
(* expression: operands first, then the operator.  host holds the chunk    *)
(* being compiled, the instructions really emitted (opcode and length),    *)
(* the number of values the code leaves on the stack, and what the last    *)
(* unary or binary saw.                                                    *)
(***************************************************************************)
MaxCode == 6
MaxParse == 4
OpCode(name) ==
  CASE name = "OP_CONSTANT" -> 0
    [] name = "OP_NIL" -> 1
    [] name = "OP_TRUE" -> 2
    [] name = "OP_GET_LOCAL" -> 6
    [] name = "OP_GET_GLOBAL" -> 8
    [] name = "OP_ADD" -> 14
    [] name = "OP_NEGATE" -> 19
    [] name = "OP_NOT" -> 22
    [] name = "OP_EQUAL" -> 23
    [] name = "OP_CALL" -> 29
    [] OTHER -> 38
writeChunk(ch, byte) == [ch EXCEPT !.code = Append(@, byte)]
emitBytes(ch, byte1, byte2) == writeChunk(writeChunk(ch, byte1), byte2)
addConstant(ch, value) == [ch EXCEPT !.constants = Append(@, value)]
emitConstantBytes(ch, value) ==
  emitBytes(addConstant(ch, value), OpCode("OP_CONSTANT"), Len(ch.constants))
count(ch) == Len(ch.code)
byteAt(ch, i) == ch.code[i + 1]
lastWasConstantBytes(ch) ==
  count(ch) >= 2 /\ byteAt(ch, count(ch) - 2) = OpCode("OP_CONSTANT")
removeLastConstant(ch) == [ch EXCEPT !.code = SubSeq(@, 1, Len(@) - 2)]
lastTwoWereConstantsBytes(ch) ==
  /\ count(ch) >= 4 /\ byteAt(ch, count(ch) - 2) = OpCode("OP_CONSTANT")
  /\ byteAt(ch, count(ch) - 4) = OpCode("OP_CONSTANT")
removeLastTwoConstants(ch) == [ch EXCEPT !.code = SubSeq(@, 1, Len(@) - 4)]
(* chunk->constants.values[idx]: an index outside the pool reads memory   *)
(* that holds no constant of the chunk, any value.                        *)
Garbage == {Num(7), [k |-> "nil", v |-> 0]}
constantsAt(ch, idx) ==
  IF idx < Len(ch.constants) THEN {ch.constants[idx + 1]} ELSE Garbage
isFalseyValue(val) == val.k = "nil" \/ (val.k = "bool" /\ ~val.v)
(* unary after parsePrecedence(PREC_UNARY); val is what lastWasConstant   *)
(* stored in its out parameter.                                           *)
unaryBytes(ch, op, val) ==
  IF lastWasConstantBytes(ch) /\ op = "-" /\ val.k = "num"
  THEN emitConstantBytes(removeLastConstant(ch), Num(0 - val.v))
  ELSE IF lastWasConstantBytes(ch) /\ op = "not"
  THEN emitConstantBytes(removeLastConstant(ch), Bool(isFalseyValue(val)))
  ELSE writeChunk(ch, OpCode(IF op = "-" THEN "OP_NEGATE" ELSE "OP_NOT"))
(* binary after the right operand, for + and ==. *)
binaryBytes(ch, op, a, b) ==
  IF lastTwoWereConstantsBytes(ch) /\ a.k = "num" /\ b.k = "num"
  THEN emitConstantBytes(removeLastTwoConstants(ch),
                         IF op = "+" THEN Num(a.v + b.v) ELSE Bool(a.v = b.v))
  ELSE IF lastTwoWereConstantsBytes(ch) /\ op = "=="
  THEN emitConstantBytes(removeLastTwoConstants(ch), Bool(a.k = b.k /\ a.v = b.v))
  ELSE writeChunk(ch, OpCode(IF op = "+" THEN "OP_ADD" ELSE "OP_EQUAL"))

noFold == [fn |-> "emit", matched |-> FALSE, real |-> FALSE, indexes |-> {}, pool |-> 0]
FoldInit ==
  /\ vm = initVM
  /\ host = [chunk |-> [code |-> <<>>, constants |-> <<>>], emitted |-> <<>>,
             height |-> 0, corrupt |-> FALSE, calls |-> 0, last |-> noFold]
canEmit == ~host.corrupt /\ count(host.chunk) < MaxCode /\ host.calls < MaxParse
(* An operand: ch is the chunk after it, op and len its instruction. *)
operand(ch, op, len, consumed) ==
  /\ host' = [host EXCEPT !.chunk = ch,
                          !.emitted = Append(@, [op |-> OpCode(op), len |-> len]),
                          !.height = @ - consumed + 1, !.calls = @ + 1,
                          !.last = noFold]
  /\ UNCHANGED vm
(* number(), literal(), variable() of a local or of a global. *)
ParseNumber ==
  /\ canEmit
  /\ \E n \in 1..2 : operand(emitConstantBytes(host.chunk, Num(n)), "OP_CONSTANT", 2, 0)
ParseLiteral ==
  /\ canEmit
  /\ \E op \in {"OP_NIL", "OP_TRUE"} : operand(writeChunk(host.chunk, OpCode(op)), op, 1, 0)
ParseLocal ==
  /\ canEmit
  /\ \E slot \in 0..1 :
       operand(emitBytes(host.chunk, OpCode("OP_GET_LOCAL"), slot), "OP_GET_LOCAL", 2, 0)
ParseGlobal ==
  /\ canEmit
  /\ operand(emitBytes(addConstant(host.chunk, Str("x")), OpCode("OP_GET_GLOBAL"),
                       Len(host.chunk.constants)),
             "OP_GET_GLOBAL", 2, 0)
(* call() with the arguments already compiled, dot() of obj.m(). *)
ParseCall ==
  /\ canEmit
  /\ \E argCount \in 0..1 :
       /\ host.height >= argCount + 1
       /\ operand(emitBytes(host.chunk, OpCode("OP_CALL"), argCount), "OP_CALL", 2,
                  argCount + 1)
ParseInvoke ==
  /\ canEmit /\ host.height >= 1
  /\ operand(writeChunk(emitBytes(addConstant(host.chunk, Str("m")), OpCode("OP_INVOKE"),
                                  Len(host.chunk.constants)), 0),
             "OP_INVOKE", 3, 1)
(* The opcodes of the last n instructions emitted. *)
tailOps(emitted, n) ==
  {emitted[i].op : i \in {j \in DOMAIN emitted : j > Len(emitted) - n}}
reallyConstants(emitted, n) ==
  Len(emitted) >= n /\ tailOps(emitted, n) = {OpCode("OP_CONSTANT")}
(* What a fold leaves: the folded instructions replaced by one CONSTANT    *)
(* when they were instructions, a chunk cut inside an instruction when not.*)
folded(h, ch, n, fn, matched, indexes, consumed) ==
  LET removed == matched /\ count(ch) < count(h.chunk) + 1
      real == reallyConstants(h.emitted, n)
      one(op) == [op |-> op, len |-> 1]
  IN [h EXCEPT
        !.chunk = ch,
        !.emitted = IF removed /\ real
                    THEN Append(SubSeq(@, 1, Len(@) - n), [op |-> 0, len |-> 2])
                    ELSE Append(@, one(ch.code[Len(ch.code)])),
        !.height = @ - consumed + 1, !.calls = @ + 1,
        !.corrupt = removed /\ ~real,
        !.last = [fn |-> fn, matched |-> matched, real |-> real,
                  indexes |-> IF matched THEN indexes ELSE {},
                  pool |-> Len(h.chunk.constants)]]
ParseUnary ==
  /\ canEmit /\ host.height >= 1
  /\ \E op \in {"-", "not"} :
     \E val \in constantsAt(host.chunk, host.chunk.code[Len(host.chunk.code)]) :
       host' = folded(host, unaryBytes(host.chunk, op, val), 1, "unary",
                      lastWasConstantBytes(host.chunk),
                      {host.chunk.code[Len(host.chunk.code)]}, 1)
  /\ UNCHANGED vm
ParseBinary ==
  /\ canEmit /\ host.height >= 2 /\ count(host.chunk) >= 3
  /\ \E op \in {"+", "=="} :
     \E b \in constantsAt(host.chunk, byteAt(host.chunk, count(host.chunk) - 1)) :
     \E a \in constantsAt(host.chunk, byteAt(host.chunk, count(host.chunk) - 3)) :
       host' = folded(host, binaryBytes(host.chunk, op, a, b), 2, "binary",
                      lastTwoWereConstantsBytes(host.chunk),
                      {byteAt(host.chunk, count(host.chunk) - 1),
                       byteAt(host.chunk, count(host.chunk) - 3)}, 2)
  /\ UNCHANGED vm
FoldNext ==
  \/ ParseNumber \/ ParseLiteral \/ ParseLocal \/ ParseGlobal
  \/ ParseCall \/ ParseInvoke \/ ParseUnary \/ ParseBinary
FoldSpec == FoldInit /\ [][FoldNext]_vars

(* C32: when unary or binary take the last bytes for CONSTANT             *)
(* instructions, the last one or two instructions emitted are CONSTANT     *)
(* instructions, the constant indexes read are inside the pool, and no     *)
(* byte of another instruction is removed.                                 *)
C32_PeepholeSeesInstructions ==
  /\ ~host.corrupt
  /\ host.last.matched =>
       /\ host.last.real
       /\ \A idx \in host.last.indexes : idx < host.last.pool

(* C33: a method call on an instance of a class that extends and          *)
(* implements runs the class's own method, else the method of the last     *)
(* listed trait that has the name, else the superclass's; the class's      *)
(* method table holds exactly these closures, so dispatch needs no other   *)
(* table.                                                                  *)
classNamed(s, chars) ==
  s.heap[s.globals[internedString(s, chars)].v]
methodOf(s, chars, name) ==
  classNamed(s, chars).methods[internedString(s, name)]
C33_MethodResolution ==
  /\ host.source = TraitOrder =>
       /\ host.result \in {"", "OK"}
       /\ (Running("run") /\ atEnd(vm)) =>
            /\ localAt(vm, 2) = NUMBER_VAL(4) /\ localAt(vm, 3) = NUMBER_VAL(3)
            /\ methodOf(vm, "C", "b") = methodOf(vm, "T2", "b")
            /\ methodOf(vm, "C", "a") \notin {methodOf(vm, "T2", "a")}
  /\ host.source = TraitOverParent =>
       /\ host.result \in {"", "OK"}
       /\ (Running("run") /\ atEnd(vm)) =>
            /\ localAt(vm, 2) = NUMBER_VAL(2) /\ localAt(vm, 3) = NUMBER_VAL(1)
            /\ methodOf(vm, "C", "b") = methodOf(vm, "T1", "b")
            /\ methodOf(vm, "C", "d") = methodOf(vm, "P", "d")
            /\ DOMAIN classNamed(vm, "C").methods = DOMAIN classNamed(vm, "P").methods
C33_TraitBeatsParent ==
  /\ host.source = TraitOverParent /\ Running("run") /\ atEnd(vm)
  /\ localAt(vm, 2) = NUMBER_VAL(2) /\ localAt(vm, 3) = NUMBER_VAL(1)

(***************************************************************************)
(* OP_INVOKE against OP_GET_PROPERTY followed by OP_CALL.  The script of   *)
(* InvokeBase has run to its end: class K with the method m(x) is a global *)
(* and the instance o is the script's local.  SetField is the statement    *)
(* `o.name = value`; Dispatch runs OP_INVOKE on a receiver, a name and     *)
(* arguments and records, next to its result, the result of the two        *)
(* instructions OP_GET_PROPERTY and OP_CALL on the same stack.             *)
(***************************************************************************)
MaxDispatch == 3
FieldNames == {"m", "f"}
PropertyNames == FieldNames \cup {"z"}
ArgLists == {<<>>, <<NUMBER_VAL(7)>>}
RECURSIVE internNames(_, _)
internNames(s, names) ==
  IF names = <<>> THEN s
  ELSE internNames(copyString(s, Head(names), internedString(s, Head(names))).s,
                   Tail(names))
invokeBase ==
  internNames(runToEnd(interpretProgram(initVM, InvokeBase, 0).s, MaxSteps).s,
              <<"f", "z">>)
FieldValues(s) ==
  {methodOf(s, "K", "m"), s.globals[internedString(s, "print")], NUMBER_VAL(5)}
Receivers(s) == {host.o, NUMBER_VAL(1), s.globals[internedString(s, "K")]}
(* What the dispatch loop of run() sees after the instruction. *)
seen(m) ==
  [r |-> m.r, stackTop |-> m.s.stackTop, frameCount |-> m.s.frameCount,
   ub |-> m.s.ub,
   stack |-> [i \in 0..(m.s.stackTop - 1) |-> slotAt(m.s, i)],
   frames |-> [i \in 1..m.s.frameCount |-> m.s.frames[i]]]
getThenCall(s, receiver, name, args) ==
  LET called(m) == callValue(m, peek(m, Len(args)), Len(args))
      got(m) == IF m.r = "next" THEN called(pushAll(m.s, args)) ELSE m
  IN got(getProperty(push(s, receiver), name))
invokeOn(s, receiver, name, args) ==
  invoke(pushAll(push(s, receiver), args), name, Len(args))

InvokeInit ==
  \E s \in {invokeBase} :
    /\ vm = s
    /\ host = [o |-> localAt(s, 1), calls |-> 0,
               last |-> [fn |-> "interpret"]]
SetField ==
  \E chars \in FieldNames, value \in FieldValues(vm) :
    /\ host.calls < MaxDispatch /\ vm.ub = ""
    /\ vm' = pop(setProperty(push(push(vm, host.o), value),
                             internedString(vm, chars)).s)
    /\ host' = [host EXCEPT !.calls = @ + 1, !.last = [fn |-> "setProperty"]]
Dispatch ==
  \E receiver \in Receivers(vm), chars \in PropertyNames, args \in ArgLists :
    /\ host.calls < MaxDispatch /\ vm.ub = ""
    /\ \E m \in {invokeOn([vm EXCEPT !.error = ""], receiver,
                           internedString(vm, chars), args)} :
         /\ vm' = m.s
         /\ host' = [host EXCEPT
                       !.calls = @ + 1,
                       !.last = [fn |-> "invoke", receiver |-> receiver,
                                 chars |-> chars, args |-> args,
                                 base |-> vm.stackTop,
                                 invoke |-> seen(m),
                                 split |-> seen(getThenCall([vm EXCEPT !.error = ""],
                                                receiver, internedString(vm, chars),
                                                args))]]
InvokeNext == SetField \/ Dispatch
InvokeSpec == InvokeInit /\ [][InvokeNext]_vars

(* C34: OP_INVOKE leaves the frames, the stack and the result that         *)
(* OP_GET_PROPERTY followed by OP_CALL leave: the same closure is called   *)
(* with the same slot 0 and the same arguments, and one fails exactly when *)
(* the other does.  Slot 0 is the receiver for a method of the class and   *)
(* the field value for a field.                                            *)
isField(chars) ==
  IsType(vm, host.last.receiver, "instance")
    /\ tableHas(vm.heap[host.last.receiver.v].fields, internedString(vm, chars))
C34_InvokeIsGetThenCall ==
  host.last.fn = "invoke" =>
    /\ host.last.invoke = host.last.split
    /\ (host.last.invoke.r = "next"
          /\ host.last.invoke.frameCount > 0
          /\ host.last.invoke.frames[host.last.invoke.frameCount].slots = host.last.base) =>
         host.last.invoke.stack[host.last.base] =
           IF isField(host.last.chars)
           THEN vm.heap[host.last.receiver.v].fields[internedString(vm, host.last.chars)]
           ELSE host.last.receiver
C34_MethodInvoked ==
  /\ host.last.fn = "invoke" /\ host.last.invoke.r = "next"
  /\ host.last.chars = "m" /\ ~isField("m")
  /\ host.last.invoke.frames[host.last.invoke.frameCount].closure = methodOf(vm, "K", "m").v
  /\ host.last.invoke.stack[host.last.base] = host.o
C34_FieldInvoked ==
  /\ host.last.fn = "invoke" /\ host.last.invoke.r = "next"
  /\ host.last.chars = "f" /\ isField("f")
  /\ host.last.invoke.frameCount > 0
  /\ host.last.invoke.frames[host.last.invoke.frameCount].slots = host.last.base

(* C35: a `return` without a value in a method that is not init returns    *)
(* the receiver: after `local o = new K() local r = o:m()` with m's body a *)
(* bare return, r is o.                                                    *)
C35_BareReturnGivesSelf ==
  (host.source = BareReturn /\ Running("run") /\ atEnd(vm)) =>
    localAt(vm, 2) = localAt(vm, 1)

(* C36: when callClosure returns true, *result is the value the closure    *)
(* returned, and stackTop, frameCount and every stack slot below the slot  *)
(* the closure was pushed in are what they were when callClosure was       *)
(* called.                                                                 *)
returnedTrue ==
  host.last.fn = "callClosure" /\ host.depth = 0 /\ host.result = "true"
C36_SuccessRestores ==
  returnedTrue =>
    /\ vm.stackTop = host.entry.stackTop
    /\ vm.frameCount = host.entry.frameCount
    /\ \A i \in 0..(host.entry.stackTop - 1) : slotAt(vm, i) = host.entry.stack[i]

(* C37: stackTop stays within the stack array, vm.stack <= stackTop <=     *)
(* vm.stack + STACK_MAX, and no push or pop has gone outside it.           *)
C37_StackTopInRange ==
  /\ vm.stackTop \in 0..STACK_MAX
  /\ vm.ub \notin {"pop below the stack base", "write to vm.stack[-1]",
                   "write outside vm.stack"}

(***************************************************************************)
(* The module cache of require.  loadedModules is a static table of vm.c:  *)
(* requireNative stores the exports table under the module's name before   *)
(* the module is compiled and leaves the entry when the frame array is     *)
(* full.  The host interprets scripts, calls collectGarbage, and ends the  *)
(* VM with freeVM and starts it again with initVM as the unit tests do.    *)
(***************************************************************************)
MaxModuleCalls == 2
ModuleSources == {DeepRequire, "local x = 1"}
freeObjects(s) ==
  [s EXCEPT !.heap = [a \in Addr |-> IF a \in Range(s.objects)
                                     THEN FreedObj(s.heap[a]) ELSE s.heap[a]],
            !.grayStack = <<>>]
freeVM(s) ==
  freeObjects([s EXCEPT !.globals = EmptyTable, !.strings = EmptyTable,
                        !.initString = 0])
initVMAgain(s) ==
  initVMFrom([ZeroVM EXCEPT !.heap = s.heap, !.loadedModules = s.loadedModules,
                            !.modulesInitialized = s.modulesInitialized])
RequireModule == InterpretOf(ModuleSources, MaxModuleCalls)
Collect ==
  /\ host.depth = 0 /\ vm.ub = "" /\ host.calls < MaxModuleCalls
  /\ vm' = collectGarbage(vm)
  /\ host' = [host EXCEPT !.calls = @ + 1,
                          !.last = [fn |-> "collectGarbage", chars |-> ""]]
Restart ==
  /\ host.depth = 0 /\ vm.ub = "" /\ host.calls < MaxModuleCalls
  /\ vm' = initVMAgain(freeVM(vm))
  /\ host' = [host EXCEPT !.calls = @ + 1,
                          !.last = [fn |-> "initVM", chars |-> ""]]
ModuleNext == RequireModule \/ RunStep \/ Collect \/ Restart
ModuleSpec == RunInit /\ [][ModuleNext]_vars

(* C38: every key of the module cache is a live string and every value in  *)
(* it refers to a live object.                                             *)
C38_CacheEntriesLive ==
  \A name \in DOMAIN vm.loadedModules :
    /\ IsLive(vm, name)
    /\ IS_OBJ(vm.loadedModules[name]) => IsLive(vm, vm.loadedModules[name].v)

(***************************************************************************)
(* The parser of compiler.c on token sequences.  parser.current is the     *)
(* token at pos, and TOKEN_EOF from the end of the sequence on; advance    *)
(* moves to the next token and stays on TOKEN_EOF.  Every `while` loop of  *)
(* the parser is a recursive operator; an iteration that ends with the     *)
(* same current token and the same panicMode it began with, and with the   *)
(* loop condition still true, is followed by the same iteration for ever:  *)
(* it sets stuck and the loop is left.  With at most MaxTokens tokens      *)
(* fewer than MAX_ERRORS errors are reported, so shouldStopCompiling is    *)
(* false in the loop of compileWithFilename.                               *)
(***************************************************************************)
MaxTokens == 3
TokenTypes ==
  {"class", "trait", "function", "private", "identifier", "number",
   "(", ")", ",", "end", "else", "do"}
TokenSources == UNION {[1..n -> TokenTypes] : n \in 0..MaxTokens}
tokenAt(q) == IF q.pos <= Len(q.tokens) THEN q.tokens[q.pos] ELSE "EOF"
parseAdvance(q) == [q EXCEPT !.pos = IF @ <= Len(q.tokens) THEN @ + 1 ELSE @]
parseCheck(q, type) == tokenAt(q) = type
parseMatch(q, type) == IF parseCheck(q, type) THEN parseAdvance(q) ELSE q
parseError(q) == [q EXCEPT !.panicMode = TRUE, !.hadError = TRUE]
parseConsume(q, type) == IF parseCheck(q, type) THEN parseAdvance(q) ELSE parseError(q)
(* The end of one iteration of a loop that began in the state before. *)
iterated(before, after) ==
  IF after.pos = before.pos /\ after.panicMode = before.panicMode
  THEN [after EXCEPT !.stuck = TRUE] ELSE after

RECURSIVE parsePrecedence(_)
RECURSIVE parseArgumentList(_)
RECURSIVE parseInfix(_)
RECURSIVE parseBlock(_)
RECURSIVE parseDecl(_)
(* argumentList: the do-while loop goes on after a comma. *)
parseArgumentList(q) ==
  LET more(x) == IF parseCheck(x, ",") THEN parseArgumentList(parseAdvance(x)) ELSE x
  IN more(parsePrecedence(q))
parseCall(q) ==
  parseConsume(IF parseCheck(q, ")") THEN q ELSE parseArgumentList(q), ")")
(* The loop of parsePrecedence: of the tokens here only ( has an infix     *)
(* rule, call, and each iteration starts with advance.                     *)
parseInfix(q) ==
  IF q.stuck \/ ~parseCheck(q, "(") THEN q
  ELSE parseInfix(iterated(q, parseCall(parseAdvance(q))))
parsePrecedence(q) ==
  LET previous == tokenAt(q)
      grouping(x) == parseConsume(parsePrecedence(x), ")")
  IN CASE previous \in {"number", "identifier"} -> parseInfix(parseAdvance(q))
       [] previous = "(" -> parseInfix(grouping(parseAdvance(q)))
       [] OTHER -> parseError(parseAdvance(q))
(* function: the parameters, the body and its end. *)
RECURSIVE parseParameters(_)
parseParameters(q) ==
  LET more(x) == IF parseCheck(x, ",") THEN parseParameters(parseAdvance(x)) ELSE x
  IN more(parseConsume(q, "identifier"))
parseFunction(q) ==
  LET params(x) == IF parseCheck(x, ")") THEN x ELSE parseParameters(x)
  IN parseConsume(parseBlock(parseConsume(params(parseConsume(q, "(")), ")")),
                  "end")
parseMethod(q) ==
  parseFunction(parseConsume(parseConsume(parseMatch(q, "private"), "function"),
                             "identifier"))
(* The loop over the methods of classDeclaration and traitDeclaration. *)
RECURSIVE parseMethods(_)
parseMethods(q) ==
  IF q.stuck \/ parseCheck(q, "end") \/ parseCheck(q, "EOF") THEN q
  ELSE parseMethods(iterated(q, parseMethod(q)))
parseClass(q) == parseConsume(parseMethods(parseConsume(q, "identifier")), "end")
parseStatement(q) ==
  IF parseCheck(q, "do") THEN parseConsume(parseBlock(parseAdvance(q)), "end")
  ELSE parsePrecedence(q)
RECURSIVE parseSynchronize(_)
parseSynchronize(q) ==
  IF q.stuck \/ tokenAt(q) \in {"EOF", "class", "function"} THEN q
  ELSE parseSynchronize(iterated(q, parseAdvance(q)))
parseDecl(q) ==
  LET recover(x) ==
        IF x.panicMode THEN parseSynchronize([x EXCEPT !.panicMode = FALSE]) ELSE x
  IN recover(CASE tokenAt(q) \in {"class", "trait"} -> parseClass(parseAdvance(q))
               [] tokenAt(q) = "function" ->
                    parseFunction(parseConsume(parseAdvance(q), "identifier"))
               [] OTHER -> parseStatement(q))
parseBlock(q) ==
  IF q.stuck \/ tokenAt(q) \in {"end", "else", "EOF"} THEN q
  ELSE parseBlock(iterated(q, parseDecl(q)))
(* The loop of compileWithFilename. *)
RECURSIVE parseSource(_)
parseSource(q) ==
  IF q.stuck \/ parseCheck(q, "EOF") THEN q
  ELSE parseSource(iterated(q, parseDecl(q)))

TokenInit ==
  /\ vm = initVM
  /\ \E tokens \in TokenSources :
       host = [tokens |-> tokens, pos |-> 1, panicMode |-> FALSE, hadError |-> FALSE,
               stuck |-> FALSE, result |-> ""]
CompileTokens ==
  /\ host.result = ""
  /\ \E q \in {parseSource(host)} :
       host' = [q EXCEPT !.result = IF q.stuck THEN "looping"
                                    ELSE IF q.hadError THEN "NULL" ELSE "function"]
  /\ UNCHANGED vm
TokenNext == CompileTokens
TokenSpec == TokenInit /\ [][TokenNext]_vars

(* C39: compileWithFilename returns for every token sequence: no parsing   *)
(* loop has an iteration that consumes no token and leaves the loop        *)
(* running.                                                                *)
C39_CompileTerminates == host.result # "looping"

(***************************************************************************)
(* Constant folding of / and % in binary.  A double is held as a whole     *)
(* number of halves, so 1 is 0.5 and 2 is 1.0; a quotient is held as the   *)
(* pair of its operands, which is exact.  (int)x truncates toward zero.    *)
(* The integer % of C with divisor 0 is undefined: the process is killed   *)
(* by SIGFPE or goes on with some value.                                   *)
(***************************************************************************)
MaxHalves == 4
Halves == 2
Doubles == (0 - MaxHalves)..MaxHalves
magnitude(x) == IF x < 0 THEN 0 - x ELSE x
toInt(x) == IF x < 0 THEN 0 - (magnitude(x) \div Halves) ELSE x \div Halves
Quotient(numA, numB) == [k |-> "quotient", a |-> numA, b |-> numB]
Whole(n) == [k |-> "quotient", a |-> n * Halves, b |-> Halves]
Killed == [k |-> "SIGFPE", a |-> 0, b |-> 0]
(* (int)numA % (int)numB *)
intModulo(numA, numB) ==
  IF toInt(numB) = 0 THEN {Killed, Whole(0), Whole(toInt(numA))}
  ELSE {Whole(IF toInt(numA) < 0
              THEN 0 - (magnitude(toInt(numA)) % magnitude(toInt(numB)))
              ELSE toInt(numA) % magnitude(toInt(numB)))}
(* The TOKEN_SLASH and TOKEN_PERCENT arms of the folding switch of binary: *)
(* the results the fold can give, none when the operator is left.          *)
foldDivision(op, numA, numB) ==
  IF numB = 0 THEN {}
  ELSE IF op = "/" THEN {Quotient(numA, numB)} ELSE intModulo(numA, numB)
(* OP_DIVIDE and OP_MODULO of run on two numbers. *)
runDivision(op, numA, numB) ==
  IF op = "/" THEN {Quotient(numA, numB)} ELSE intModulo(numA, numB)

DivideInit ==
  /\ vm = initVM
  /\ \E op \in {"/", "%"}, numA \in Doubles, numB \in Doubles :
       host = [op |-> op, a |-> numA, b |-> numB, phase |-> "parsed",
               folded |-> FALSE, result |-> Whole(0)]
(* binary with the two operands compiled to CONSTANT instructions. *)
FoldBinary ==
  /\ host.phase = "parsed"
  /\ \/ /\ foldDivision(host.op, host.a, host.b) = {}
        /\ host' = [host EXCEPT !.phase = "compiled"]
     \/ \E result \in foldDivision(host.op, host.a, host.b) :
          host' = [host EXCEPT !.phase = "compiled", !.folded = TRUE,
                               !.result = result]
  /\ UNCHANGED vm
(* The operator left in the chunk is executed by run. *)
RunBinary ==
  /\ host.phase = "compiled" /\ ~host.folded
  /\ \E result \in runDivision(host.op, host.a, host.b) :
       host' = [host EXCEPT !.phase = "run", !.result = result]
  /\ UNCHANGED vm
DivideNext == FoldBinary \/ RunBinary
DivideSpec == DivideInit /\ [][DivideNext]_vars

(* C40: the compiler folds no / whose divisor is zero and no % whose       *)
(* divisor truncates to the integer zero; such an operator is left for     *)
(* run time.                                                               *)
C40_NoZeroDivisorFolded ==
  (host.phase = "compiled" /\ host.folded) =>
    /\ host.op = "/" => host.b # 0
    /\ host.op = "%" => toInt(host.b) # 0
====
